---- MODULE Spec2Model ----
(***************************************************************************)
(* A model of the GPU autoscaler: the decision engine                      *)
(* (pkg/autoscaler/controller.go), the predictive scaler                    *)
(* (pkg/autoscaler/predictive_scaler.go), the spot interruption             *)
(* orchestrator, the admission rewriter, the cost tracker and the budget    *)
(* controller.  Each component has its own specification over the shared    *)
(* variables; the variables of the other components stay at their initial   *)
(* values.                                                                  *)
(*                                                                         *)
(* Time is counted in model ticks.  In the decision engine one tick is one  *)
(* hour, the pattern refresh period of the predictive scaler.               *)
(***************************************************************************)
EXTENDS Integers, Sequences, FiniteSets, TLC

(***************************************************************************)
(* Bounds of the model.                                                    *)
(***************************************************************************)
MaxTime == 2
MaxPending == 1
MaxAcknowledged == 1
MaxJoined == 1
MaxListed == 12
MaxPods == 2
MaxGPURequest == 8

(***************************************************************************)
(* AutoscalerConfig of the modelled instance (controller.go, 71-85).        *)
(***************************************************************************)
ScaleUpThreshold == 80
ScaleDownThreshold == 20
ScaleUpCooldown == 1
ScaleDownCooldown == 2
PendingPodTimeout == 1
MaxNodes == 5
MinNodes == 2
SpotInstancePercentage == 60
EnablePredictiveScaling == TRUE

CapacityTypeSpot == "spot"
CapacityTypeOnDemand == "on-demand"
CapacityTypeReserved == "reserved"

NodePools ==
  << [Name |-> "od-pool", CapacityType |-> CapacityTypeOnDemand],
     [Name |-> "spot-pool", CapacityType |-> CapacityTypeSpot] >>

ScaleUp == "scale-up"
ScaleDown == "scale-down"
NoAction == "no-action"

\* The zero value of time.Time: time.Since of it exceeds every duration.
ZeroTime == -1

\* Utilization levels (percent) a node's GPU metric can report.
UtilLevels == {0, 90}

\* Clusters the controller can be constructed on.
InitialClusters ==
  { << >>,
    << [cap |-> CapacityTypeSpot, unsched |-> FALSE],
       [cap |-> CapacityTypeOnDemand, unsched |-> FALSE],
       [cap |-> CapacityTypeSpot, unsched |-> FALSE],
       [cap |-> CapacityTypeReserved, unsched |-> FALSE],
       [cap |-> CapacityTypeOnDemand, unsched |-> FALSE] >> }

VARIABLES
  now,                \* wall clock, in ticks
  nodes,              \* GPU nodes of the cluster, in List order
  provisioning,       \* capacity types of nodes requested from the cloud, not yet joined
  lastScaleUpTime,
  lastScaleDownTime,
  scalingHistory,     \* the most recent ScalingEvent of the history list
  patterns,           \* PredictiveScaler.patterns
  lastUpdate,         \* PredictiveScaler.lastUpdate
  decision,           \* the ScalingDecision of the last Reconcile
  tick,               \* what the last Reconcile observed and did
  budget,             \* the CostBudget object as stored: its spec and status
  policy,             \* the spot node pool of the AutoscalingPolicy in the budget's scope
  enf,                \* what the last budget Reconcile did, and the enforcements applied
  spot,               \* per spot node: cloud notice, warning annotation, unschedulable
  terminationWarnings,\* SpotOrchestrator.terminationWarnings (its keys)
  drain,              \* per spot node: the gracefullyEvictPods goroutine
  alive,              \* the pods that exist on the spot nodes
  waves,              \* per spot node: the evictions issued so far, and the polls seen
  wh,                 \* the admission webhook: its switches, the last request and response
  podCostCache,       \* CostTracker.podCostCache: pod key -> PodCost
  attribution,        \* the stored CostAttribution status, and the one before it
  accrual,            \* per pod: the last accrual made through the cache
  costData,           \* the rows of the cost_data table
  scopeSpend,         \* the last calculateScopeSpend: its scope and its result
  downCalc,           \* one call of calculateScaleDownNodeCount: its inputs and result
  call,               \* one call of a function of the program: its inputs and result
  stop,               \* the shutdown of the spot monitor, and the drains in flight then
  sharedMem           \* a map as its goroutines see it: what it holds, and each goroutine's position

\* The variables of each component, the clock excepted.
asVars == << nodes, provisioning, lastScaleUpTime, lastScaleDownTime,
             scalingHistory, patterns, lastUpdate, decision, tick >>
bgVars == << budget, policy, enf >>
soVars == << spot, terminationWarnings, drain, alive, waves >>

ctVars == << podCostCache, attribution, accrual >>
dbVars == << costData, scopeSpend >>

vars == << now, asVars, bgVars, soVars, wh, ctVars, dbVars, downCalc, call, stop, sharedMem >>

\* What the actions of one component leave alone.
notClock == << asVars, bgVars, soVars, wh, ctVars, dbVars, downCalc, call, stop, sharedMem >>
notAS == << bgVars, soVars, wh, ctVars, dbVars, downCalc, call, stop, sharedMem >>
notBG == << now, asVars, soVars, wh, ctVars, dbVars, downCalc, call, stop, sharedMem >>
notSO == << now, asVars, bgVars, wh, ctVars, dbVars, downCalc, call, stop, sharedMem >>
notWH == << now, asVars, bgVars, soVars, ctVars, dbVars, downCalc, call, stop, sharedMem >>
notCT == << now, asVars, bgVars, soVars, wh, dbVars, downCalc, call, stop, sharedMem >>
notDB == << asVars, bgVars, soVars, wh, ctVars, downCalc, call, stop, sharedMem >>
notCalc == << now, asVars, bgVars, soVars, wh, ctVars, dbVars, call, stop, sharedMem >>
notCall == << now, asVars, bgVars, soVars, wh, ctVars, dbVars, downCalc, stop, sharedMem >>
notStop == << now, asVars, bgVars, soVars, wh, ctVars, dbVars, downCalc, call, sharedMem >>

----
(***************************************************************************)
(* Helpers.                                                                *)
(***************************************************************************)
Forever == 1000000

\* time.Since(t) evaluated at wall-clock time at.
Since(t, at) == IF t = ZeroTime THEN Forever ELSE at - t

Min(a, b) == IF a < b THEN a ELSE b

CeilDiv(a, b) == (a + b - 1) \div b

RECURSIVE SumSeq(_)
SumSeq(s) == IF s = << >> THEN 0 ELSE Head(s) + SumSeq(Tail(s))

RECURSIVE SelectIdx(_, _, _)
\* The indices i of s, in order, whose element satisfies the capacity type c.
SelectIdx(s, c, i) ==
  IF i > Len(s) THEN << >>
  ELSE IF s[i].cap = c THEN << i >> \o SelectIdx(s, c, i + 1)
       ELSE SelectIdx(s, c, i + 1)

Take(s, k) == IF k >= Len(s) THEN s ELSE SubSeq(s, 1, k)

----
(***************************************************************************)
(* Predictive scaler (predictive_scaler.go).  Utilization is in percent.    *)
(***************************************************************************)
HourTicks == 1
Day == 24 * HourTicks
HistoricalLookback == 7 * Day
PatternSimilarityThreshold == 70
PreWarmThreshold == 70

Nil == [nil |-> TRUE]

\* time.Weekday() and time.Hour() of a wall-clock time; tick 0 is a Sunday, 00:00.
Weekday(t) == (t \div Day) % 7
HourOf(t) == (t \div HourTicks) % 24

Abs(x) == IF x < 0 THEN -x ELSE x

\* A metrics snapshot m is [err, util]: util[i] is the utilization reported
\* for the i-th node; one GPU metric (one pod) per node.
\* err: the GetGPUMetrics call of getAverageGPUUtilization fails; nodeErr:
\* the nodes for which the call of getNodeGPUUtilization fails.  Here the
\* calls of a Reconcile fail together or not at all, and the snapshots have
\* no busy node, one busy node, or all nodes busy.
MetricsInputs(n) ==
  { [err |-> TRUE, nodeErr |-> 1..n, util |-> << >>] }
    \cup { [err |-> FALSE, nodeErr |-> {}, util |-> u] :
             u \in { f \in [1..n -> UtilLevels] :
                       LET busy == Cardinality({ i \in 1..n : f[i] >= ScaleDownThreshold })
                       IN  busy \in {0, 1, n} } }

\* The instants analyzePattern's loop visits between startTime and endTime.
SampleTimes(startTime, endTime) ==
  { startTime + k * Day : k \in 0..((endTime - startTime - 1) \div Day) }

analyzePattern(dayOfWeek, hourOfDay, startTime, endTime, m) ==
  LET samples == { t \in SampleTimes(startTime, endTime) :
                     /\ Weekday(t) = dayOfWeek
                     /\ HourOf(t) = hourOfDay
                     /\ ~m.err
                     /\ Len(m.util) > 0 }
  IN  IF Cardinality(samples) < 3 THEN Nil
      ELSE [ DayOfWeek |-> dayOfWeek,
             HourOfDay |-> hourOfDay,
             AvgUtilization |-> SumSeq(m.util) \div Len(m.util),
             PodsCount |-> Len(m.util) ]

\* updatePatterns runs analyzePattern for every weekday and hour.  A cell that
\* no sample instant falls in has no samples and yields nil, so only the
\* cells of the sample instants are evaluated.
updatePatterns(at, m) ==
  { analyzePattern(Weekday(t), HourOf(t), at - HistoricalLookback, at, m) :
      t \in SampleTimes(at - HistoricalLookback, at) } \ { Nil }

\* Similarity in percent: 70% day, 30% hour.
calculateSimilarity(pattern, targetDay, targetHour) ==
  LET daySimilarity ==
        IF pattern.DayOfWeek = targetDay THEN 100
        ELSE IF Abs(pattern.DayOfWeek - targetDay) = 1 THEN 50 ELSE 0
      hourDiff == Abs(pattern.HourOfDay - targetHour)
      hourSimilarity ==
        IF hourDiff = 0 THEN 100
        ELSE IF hourDiff = 1 THEN 70
        ELSE IF hourDiff = 2 THEN 40 ELSE 0
  IN  (daySimilarity * 70 + hourSimilarity * 30) \div 100

findSimilarPatterns(ps, targetTime) ==
  { p \in ps : calculateSimilarity(p, Weekday(targetTime), HourOf(targetTime))
                 > PatternSimilarityThreshold }

RECURSIVE SumOver(_, _)
\* Sum of field f (1: AvgUtilization, 2: PodsCount, 3: squared utilization) over a set.
SumOver(S, f) ==
  IF S = {} THEN 0
  ELSE LET p == CHOOSE x \in S : TRUE
           v == IF f = 1 THEN p.AvgUtilization
                ELSE IF f = 2 THEN p.PodsCount
                ELSE p.AvgUtilization * p.AvgUtilization
       IN  v + SumOver(S \ {p}, f)

\* confidence > 0.7, with confidence = min(1, max(0, 1 - 2*stdDev) + min(0.2, 0.05*n))
\* and 0.3 below two patterns.  With u in percent and n patterns:
\* 2*stdDev < 0.3 + boost  <=>  4 * n * sum(u^2) - 4 * sum(u)^2 < (30 + boost)^2 * n^2.
calculateConfidenceAbove70(similar) ==
  LET n == Cardinality(similar)
      boost == Min(20, 5 * n)
      s1 == SumOver(similar, 1)
      s2 == SumOver(similar, 3)
  IN  /\ n >= 2
      /\ 4 * n * s2 - 4 * s1 * s1 < (30 + boost) * (30 + boost) * n * n

calculateRecommendedNodes(sumUtil, n, predictedPods) ==
  LET baseNodes == CeilDiv(predictedPods, 8)
  IN  CeilDiv(baseNodes * sumUtil, 80 * n)

\* The prediction, given the patterns in force.
Predict(ps, at) ==
  LET similar == findSimilarPatterns(ps, at)
      n == Cardinality(similar)
      sumUtil == SumOver(similar, 1)
      predictedPods == SumOver(similar, 2) \div n
  IN  IF n = 0 THEN [ShouldPreWarm |-> FALSE, RecommendedNodes |-> 0]
      ELSE IF sumUtil > PreWarmThreshold * n /\ calculateConfidenceAbove70(similar)
      THEN [ShouldPreWarm |-> TRUE,
            RecommendedNodes |-> calculateRecommendedNodes(sumUtil, n, predictedPods)]
      ELSE [ShouldPreWarm |-> FALSE, RecommendedNodes |-> 0]

\* PredictFutureLoad: the patterns and lastUpdate it leaves, and its prediction.
PredictFutureLoad(ps, lu, at, m) ==
  LET refresh == Since(lu, at) > HourTicks
      ps2 == IF refresh THEN updatePatterns(at, m) ELSE ps
      lu2 == IF refresh THEN at ELSE lu
  IN  [patterns |-> ps2, lastUpdate |-> lu2, prediction |-> Predict(ps2, at)]

----
(***************************************************************************)
(* Decision engine (controller.go).                                         *)
(***************************************************************************)
\* getAverageGPUUtilization, as the pair (sum, count) of the reported metrics;
\* analyzeClusterState uses 0 when the metrics call fails.
getAverageGPUUtilization(m) ==
  IF m.err \/ m.util = << >> THEN [sum |-> 0, cnt |-> 1]
  ELSE [sum |-> SumSeq(m.util), cnt |-> Len(m.util)]

\* avg > threshold and avg < threshold, on the exact quotient.
AvgAbove(avg, threshold) == avg.sum > threshold * avg.cnt
AvgBelow(avg, threshold) == avg.sum < threshold * avg.cnt

\* getNodeGPUUtilization errors are skipped by countUnderutilizedNodes.
countUnderutilizedNodes(ns, m) ==
  Cardinality({ i \in 1..Len(ns) : /\ i \notin m.nodeErr
                                    /\ m.util[i] < ScaleDownThreshold })

\* A variant of shouldScaleUp that leaves out the cooldown check.
shouldScaleUp_NoCooldown(ns, pendingPods, oldestAge, avgUtilization, at) ==
  IF Len(ns) >= MaxNodes THEN FALSE
  ELSE IF pendingPods > 0 /\ oldestAge > PendingPodTimeout THEN TRUE
  ELSE IF AvgAbove(avgUtilization, ScaleUpThreshold) /\ Len(ns) > 0 THEN TRUE
  ELSE FALSE

shouldScaleUp(ns, pendingPods, oldestAge, avgUtilization, at) ==
  IF Since(lastScaleUpTime, at) < ScaleUpCooldown THEN FALSE
  ELSE IF Len(ns) >= MaxNodes THEN FALSE
  ELSE IF pendingPods > 0 /\ oldestAge > PendingPodTimeout THEN TRUE
  ELSE IF AvgAbove(avgUtilization, ScaleUpThreshold) /\ Len(ns) > 0 THEN TRUE
  ELSE FALSE

shouldScaleDown(ns, avgUtilization, underutilizedNodes, at) ==
  IF Since(lastScaleDownTime, at) < ScaleDownCooldown THEN FALSE
  ELSE IF Len(ns) <= MinNodes THEN FALSE
  ELSE IF underutilizedNodes > 0 /\ AvgBelow(avgUtilization, ScaleDownThreshold) THEN TRUE
  ELSE FALSE

calculateScaleUpNodeCount(ns, pendingPods) ==
  LET nodesNeeded == CeilDiv(pendingPods, 4)
      targetNodes == Len(ns) + nodesNeeded
  IN  IF targetNodes > MaxNodes THEN MaxNodes ELSE targetNodes

\* int(min(underutilized, len(nodes) * 0.2)): the conversion truncates.
calculateScaleDownNodeCount(ns, underutilized) ==
  LET nodesToRemove == Min(underutilized, (Len(ns) * 2) \div 10)
      targetNodes == Len(ns) - nodesToRemove
  IN  IF targetNodes < MinNodes THEN MinNodes ELSE targetNodes

getPreferredNodePool(capacityType) ==
  LET matching == { i \in 1..Len(NodePools) : NodePools[i].CapacityType = capacityType }
  IN  IF matching # {}
      THEN NodePools[CHOOSE i \in matching : \A j \in matching : i <= j].Name
      ELSE IF Len(NodePools) > 0 THEN NodePools[1].Name
      ELSE "default"

\* spotNodes / totalNodes is NaN on an empty cluster, and NaN < x is false.
selectCapacityType(ns) ==
  LET spotNodes == Len(SelectIdx(ns, CapacityTypeSpot, 1))
      totalNodes == Len(ns)
  IN  IF totalNodes > 0 /\ spotNodes * 100 < SpotInstancePercentage * totalNodes
      THEN << CapacityTypeSpot, getPreferredNodePool(CapacityTypeSpot) >>
      ELSE << CapacityTypeOnDemand, getPreferredNodePool(CapacityTypeOnDemand) >>

selectNodesForScaleDown(ns) ==
  IF SelectIdx(ns, CapacityTypeSpot, 1) # << >> THEN CapacityTypeSpot
  ELSE CapacityTypeOnDemand

getNodePoolByName(name) ==
  LET matching == { i \in 1..Len(NodePools) : NodePools[i].Name = name }
  IN  IF matching = {} THEN Nil
      ELSE NodePools[CHOOSE i \in matching : \A j \in matching : i <= j]

\* The indices of the nodes to remove: spot nodes first, then on-demand, in List order.
selectNodesToRemove(ns, d) ==
  LET removeCount == Len(ns) - d.DesiredNodeCount
  IN  IF removeCount <= 0 THEN << >>
      ELSE Take(SelectIdx(ns, CapacityTypeSpot, 1)
                  \o SelectIdx(ns, CapacityTypeOnDemand, 1), removeCount)

applyPredictiveScaling(d, prediction) ==
  IF prediction.ShouldPreWarm /\ prediction.RecommendedNodes > d.DesiredNodeCount
  THEN [d EXCEPT !.Action = ScaleUp, !.DesiredNodeCount = prediction.RecommendedNodes]
  ELSE d

analyzeClusterState(ns, pendingPods, oldestAge, m, prediction, at) ==
  LET avgUtilization == getAverageGPUUtilization(m)
      underutilizedNodes == countUnderutilizedNodes(ns, m)
      base == [ Action |-> NoAction,
                DesiredNodeCount |-> Len(ns),
                CapacityType |-> "",
                NodePool |-> "" ]
      d == IF shouldScaleUp(ns, pendingPods, oldestAge, avgUtilization, at)
           THEN [base EXCEPT
                   !.Action = ScaleUp,
                   !.DesiredNodeCount = calculateScaleUpNodeCount(ns, pendingPods),
                   !.CapacityType = selectCapacityType(ns)[1],
                   !.NodePool = selectCapacityType(ns)[2]]
           ELSE IF shouldScaleDown(ns, avgUtilization, underutilizedNodes, at)
           THEN [base EXCEPT
                   !.Action = ScaleDown,
                   !.DesiredNodeCount = calculateScaleDownNodeCount(ns, underutilizedNodes),
                   !.CapacityType = selectNodesForScaleDown(ns)]
           ELSE base
  IN  IF EnablePredictiveScaling THEN applyPredictiveScaling(d, prediction) ELSE d

recordScalingEvent(history, action, nodeCount, capacityType, success) ==
  << [Action |-> action, NodeCount |-> nodeCount,
      CapacityType |-> capacityType, Success |-> success] >>

----
(***************************************************************************)
(* Decision engine: state after NewAutoscalerController, and its steps.     *)
(***************************************************************************)
NoDecision ==
  [ Action |-> NoAction, DesiredNodeCount |-> 0, CapacityType |-> "", NodePool |-> "" ]

NoTick ==
  [ result |-> "none", n |-> 0, upCooling |-> FALSE, downCooling |-> FALSE,
    cloudOks |-> 0, cloudErrs |-> 0, nodesToAdd |-> 0, listed |-> 0,
    upAdvanced |-> FALSE, downAdvanced |-> FALSE, cancelled |-> FALSE ]

\* The decision engine at rest on an empty cluster: its state in the
\* specifications of the other components.
IdleAutoscaler ==
  /\ nodes = << >>
  /\ provisioning = << >>
  /\ lastScaleUpTime = ZeroTime
  /\ lastScaleDownTime = ZeroTime
  /\ scalingHistory = << >>
  /\ patterns = {}
  /\ lastUpdate = ZeroTime
  /\ decision = NoDecision
  /\ tick = NoTick

InitAutoscaler ==
  /\ now = 0
  /\ nodes \in InitialClusters
  /\ provisioning = << >>
  /\ lastScaleUpTime = ZeroTime
  /\ lastScaleDownTime = ZeroTime
  /\ scalingHistory = << >>
  /\ patterns = {}
  /\ lastUpdate = ZeroTime
  /\ decision = NoDecision
  /\ tick = NoTick

\* What a cloud call can come to.
CloudOutcomes == {"ok", "err"}

\* What the drain of a victim and the cloud removal that follows a successful
\* drain can come to; a failed drain skips the cloud call.
RemovalOutcomes ==
  { << "cordon-failed", "none" >>, << "drain-failed", "none" >>,
    << "ok", "ok" >>, << "ok", "err" >> }

\* The node list after scaleDown's loop over the victims; out[k] is the
\* outcome for the k-th victim.
RECURSIVE AfterRemoval(_, _, _, _)
AfterRemoval(ns, victims, out, i) ==
  IF i > Len(ns) THEN << >>
  ELSE LET ks == { k \in 1..Len(victims) : victims[k] = i }
           rest == AfterRemoval(ns, victims, out, i + 1)
       IN  IF ks = {} THEN << ns[i] >> \o rest
           ELSE LET o == out[CHOOSE k \in ks : TRUE]
                IN  IF o[1] = "cordon-failed" THEN << ns[i] >> \o rest
                    ELSE IF o[1] = "ok" /\ o[2] = "ok" THEN rest
                    ELSE << [ns[i] EXCEPT !.unsched = TRUE] >> \o rest

\* The outcomes a context cancelled while the k-th victim is handled allows:
\* a call for that victim fails, and so does the first call for every later
\* one (k = 0: the context is not cancelled).
CancelledAt(k, out) ==
  k > 0 => /\ out[k] # << "ok", "ok" >>
           /\ \A j \in DOMAIN out : j > k => out[j][1] = "cordon-failed"

CloudCalls(victims, out, res) ==
  Cardinality({ k \in 1..Len(victims) : out[k][1] = "ok" /\ out[k][2] = res })

\* The variables the decision engine leaves alone.

\* A number of pending pods that needs more than one node.
ManyPending == 5

\* The pending GPU pods a Reconcile can find: their number and whether the
\* oldest one has waited longer than the timeout.
PendingInputs ==
  { << 0, 0 >> }
    \cup ((1..MaxPending) \X {PendingPodTimeout, PendingPodTimeout + 1})
    \cup { << ManyPending, PendingPodTimeout + 1 >> }

\* What Reconcile observes before it acts.
Seen ==
  [ NoTick EXCEPT
      !.n = Len(nodes),
      !.upCooling = Since(lastScaleUpTime, now) < ScaleUpCooldown,
      !.downCooling = Since(lastScaleDownTime, now) < ScaleDownCooldown ]

\* scaleUp and the event Reconcile records for it.
scaleUp(d) ==
  LET nodePool == getNodePoolByName(d.NodePool)
      nodesToAdd == d.DesiredNodeCount - (d.DesiredNodeCount - 1)
      failed == recordScalingEvent(scalingHistory, d.Action, 0, d.CapacityType, FALSE)
  IN  IF nodePool = Nil
      THEN /\ tick' = [Seen EXCEPT !.result = "error"]
           /\ scalingHistory' = failed
           /\ UNCHANGED << nodes, provisioning, lastScaleUpTime, lastScaleDownTime >>
      ELSE \E cloud \in CloudOutcomes :
             IF cloud = "err"
             THEN /\ tick' = [Seen EXCEPT !.result = "error", !.cloudErrs = 1,
                                          !.nodesToAdd = nodesToAdd]
                  /\ scalingHistory' = failed
                  /\ UNCHANGED << nodes, provisioning, lastScaleUpTime,
                                  lastScaleDownTime >>
             ELSE /\ tick' = [Seen EXCEPT !.result = "ok", !.cloudOks = 1,
                                          !.nodesToAdd = nodesToAdd,
                                          !.upAdvanced = TRUE]
                  /\ provisioning' =
                       provisioning \o [k \in 1..nodesToAdd |-> nodePool.CapacityType]
                  /\ lastScaleUpTime' = now
                  /\ scalingHistory' =
                       recordScalingEvent(scalingHistory, d.Action, d.DesiredNodeCount,
                                          d.CapacityType, TRUE)
                  /\ UNCHANGED << nodes, lastScaleDownTime >>

\* scaleDown and the event Reconcile records for it.
scaleDown(d) ==
  \/ \* listing the nodes again fails
     /\ tick' = [Seen EXCEPT !.result = "error"]
     /\ scalingHistory' =
          recordScalingEvent(scalingHistory, d.Action, 0, d.CapacityType, FALSE)
     /\ UNCHANGED << nodes, provisioning, lastScaleUpTime, lastScaleDownTime >>
  \/ \* getGPUNodes lists the nodes anew: joined of the requested nodes have
     \* joined the cluster since analyzeClusterState listed them (at most
     \* MaxJoined of them)
     \E joined \in 0..Min(MaxJoined, Len(provisioning)) :
       \E listed \in { nodes \o [ i \in 1..joined |->
                                    [cap |-> provisioning[i], unsched |-> FALSE] ] } :
       \E victims \in { selectNodesToRemove(listed, d) } :
           \E out \in [1..Len(victims) -> RemovalOutcomes], k \in 0..Len(victims) :
           /\ CancelledAt(k, out)
           /\ nodes' = AfterRemoval(listed, victims, out, 1)
           /\ provisioning' = SubSeq(provisioning, joined + 1, Len(provisioning))
           /\ lastScaleDownTime' = now
           /\ tick' = [Seen EXCEPT
                         !.result = "ok",
                         !.listed = Len(listed),
                         !.downAdvanced = TRUE,
                         !.cancelled = k > 0,
                         !.cloudOks = CloudCalls(victims, out, "ok"),
                         !.cloudErrs = CloudCalls(victims, out, "err")]
           /\ scalingHistory' =
                recordScalingEvent(scalingHistory, d.Action, d.DesiredNodeCount,
                                   d.CapacityType, TRUE)
           /\ UNCHANGED lastScaleUpTime

\* One Reconcile of the decision engine, from analysis to the recorded event.
Reconcile ==
  \/ \* listing the nodes or the pods fails: analyzeClusterState returns the error
     /\ tick' = [Seen EXCEPT !.result = "analyze-error"]
     /\ UNCHANGED notAS
     /\ UNCHANGED << now, nodes, provisioning, lastScaleUpTime, lastScaleDownTime,
                     scalingHistory, patterns, lastUpdate, decision >>
  \/ \E pending \in PendingInputs, m \in MetricsInputs(Len(nodes)) :
       \E pf \in { PredictFutureLoad(patterns, lastUpdate, now, m) } :
       \E d \in { analyzeClusterState(nodes, pending[1], pending[2], m,
                                      pf.prediction, now) } :
           /\ patterns' = pf.patterns
           /\ lastUpdate' = pf.lastUpdate
           /\ decision' = d
           /\ UNCHANGED << now, notAS >>
           /\ CASE d.Action = NoAction ->
                     /\ tick' = [Seen EXCEPT !.result = "no-action"]
                     /\ UNCHANGED << nodes, provisioning, lastScaleUpTime,
                                     lastScaleDownTime, scalingHistory >>
                [] d.Action = ScaleUp -> scaleUp(d)
                [] d.Action = ScaleDown -> scaleDown(d)

\* A node requested from the cloud joins the cluster.
NodeJoin ==
  /\ provisioning # << >>
  /\ nodes' = Append(nodes, [cap |-> Head(provisioning), unsched |-> FALSE])
  /\ provisioning' = Tail(provisioning)
  /\ UNCHANGED notAS
  /\ UNCHANGED << now, lastScaleUpTime, lastScaleDownTime, scalingHistory,
                  patterns, lastUpdate, decision, tick >>

\* Time passes.
Tick ==
  /\ now < MaxTime
  /\ now' = now + 1
  /\ UNCHANGED notClock

NextAutoscaler == Reconcile \/ NodeJoin \/ Tick

----
(***************************************************************************)
(* Budget controller (pkg/cost/budget_controller.go).  One tick is one      *)
(* minute of grace period.                                                  *)
(***************************************************************************)
MonthlyLimit == 1000

\* What calculateScopeSpend can return: below the warning threshold, between
\* warning and limit, above the limit.
SpendLevels == {500, 850, 1050}

AlertThresholdPercent == 80

\* The enforcement blocks a CostBudget is declared with.
Enforcements ==
  { [Action |-> "alert", GracePeriodMinutes |-> 1,
     ThrottleConfig |-> Nil],
    [Action |-> "throttle", GracePeriodMinutes |-> 0,
     ThrottleConfig |-> [BlockSpotCreation |-> FALSE, MaxSpotInstances |-> 2]],
    [Action |-> "throttle", GracePeriodMinutes |-> 1,
     ThrottleConfig |-> [BlockSpotCreation |-> TRUE, MaxSpotInstances |-> 0]],
    [Action |-> "block", GracePeriodMinutes |-> 0,
     ThrottleConfig |-> Nil] }

\* The declared spot node pool of the AutoscalingPolicy.
DeclaredPool == [MinNodes |-> 0, MaxNodes |-> 50]

NoStatus ==
  [ CurrentSpend |-> 0, BudgetStatus |-> "ok", AlertsFired |-> << >>,
    EnforcementActive |-> FALSE, ExceededSince |-> ZeroTime ]

NoEnf ==
  [ last |-> "none", due |-> FALSE, applied |-> 0, sent |-> 0,
    ran |-> FALSE, exceeded |-> FALSE, waited |-> -1 ]

IdleBudget ==
  /\ budget = [Enforcement |-> Nil, Status |-> NoStatus]
  /\ policy = DeclaredPool
  /\ enf = NoEnf

InitBudget ==
  /\ now = 0
  /\ budget \in { [Enforcement |-> e, Status |-> NoStatus] : e \in Enforcements }
  /\ policy = DeclaredPool
  /\ enf = NoEnf

\* updateBudgetStatus, variant that never clears ExceededSince.
updateBudgetStatus_NoClear(st, currentSpend, at) ==
  LET budgetStatus == IF currentSpend * 100 >= 100 * MonthlyLimit THEN "exceeded"
                      ELSE IF currentSpend * 100 >= 80 * MonthlyLimit THEN "warning"
                      ELSE "ok"
  IN  [ CurrentSpend |-> currentSpend,
        BudgetStatus |-> budgetStatus,
        AlertsFired |-> st.AlertsFired,
        EnforcementActive |-> st.EnforcementActive,
        ExceededSince |-> IF budgetStatus = "exceeded" /\ st.ExceededSince = ZeroTime
                          THEN at ELSE st.ExceededSince ]

\* updateBudgetStatus: the status computed from the stored one and the spend.
updateBudgetStatus(st, currentSpend, at) ==
  LET percentageUsed100 == IF MonthlyLimit > 0 THEN currentSpend * 100 ELSE 0
      budgetStatus == IF percentageUsed100 >= 100 * MonthlyLimit THEN "exceeded"
                      ELSE IF percentageUsed100 >= 80 * MonthlyLimit THEN "warning"
                      ELSE "ok"
      exceededSince ==
        IF budgetStatus = "exceeded" /\ st.ExceededSince = ZeroTime THEN at
        ELSE IF budgetStatus # "exceeded" THEN ZeroTime
        ELSE st.ExceededSince
  IN  [ CurrentSpend |-> currentSpend,
        BudgetStatus |-> budgetStatus,
        AlertsFired |-> st.AlertsFired,
        EnforcementActive |-> st.EnforcementActive,
        ExceededSince |-> exceededSince ]

\* checkAlerts for the budget's one alert: fired unless an unacknowledged
\* firing of it is on record.
checkAlerts(st) ==
  LET alreadyFired ==
        \E i \in 1..Len(st.AlertsFired) :
          st.AlertsFired[i].AlertName = "warn" /\ ~st.AlertsFired[i].Acknowledged
  IN  IF st.CurrentSpend * 100 >= AlertThresholdPercent * MonthlyLimit /\ ~alreadyFired
      THEN [st EXCEPT !.AlertsFired =
              Append(@, [AlertName |-> "warn", Acknowledged |-> FALSE])]
      ELSE st

\* throttleResources on the policy's spot pool: the pool it sends to the API
\* server, and whether it sends one.
throttleResources(throttleConfig, pool) ==
  IF throttleConfig = Nil THEN [modified |-> FALSE, pool |-> pool]
  ELSE IF throttleConfig.BlockSpotCreation
  THEN [modified |-> TRUE, pool |-> [MinNodes |-> 0, MaxNodes |-> 0]]
  ELSE IF pool.MaxNodes > throttleConfig.MaxSpotInstances
  THEN [modified |-> TRUE, pool |-> [pool EXCEPT !.MaxNodes = throttleConfig.MaxSpotInstances]]
  ELSE [modified |-> FALSE, pool |-> pool]

\* The grace-period check, variant without a grace period.
GraceElapsed_NoGrace(enforcement, st, at) == TRUE

\* Whether enforceBudget goes past its grace-period check.
GraceElapsed(enforcement, st, at) ==
  ~(st.ExceededSince # ZeroTime
      /\ Since(st.ExceededSince, at) < enforcement.GracePeriodMinutes)

\* enforceBudget on the computed status st.  listErr and updateErr are the
\* outcomes of listing the policies and of updating the policy.  The result
\* is the status, the policy pool, whether the enforcement action ran and
\* whether enforceBudget returned an error.
enforceBudget(enforcement, st, pool, at, listErr, updateErr) ==
  LET same == [st |-> st, pool |-> pool, ran |-> FALSE, err |-> FALSE]
  IN  IF st.BudgetStatus # "exceeded"
      THEN [same EXCEPT !.st = [st EXCEPT !.EnforcementActive = FALSE]]
      ELSE IF enforcement = Nil THEN same
      ELSE IF ~GraceElapsed(enforcement, st, at) THEN same
      ELSE IF st.EnforcementActive THEN same
      ELSE IF enforcement.Action = "throttle" /\ enforcement.ThrottleConfig # Nil /\ listErr
      THEN [same EXCEPT !.err = TRUE]
      ELSE LET t == IF enforcement.Action = "throttle"
                    THEN throttleResources(enforcement.ThrottleConfig, pool)
                    ELSE [modified |-> FALSE, pool |-> pool]
           IN  [ st |-> [st EXCEPT !.EnforcementActive = TRUE],
                 pool |-> IF t.modified /\ ~updateErr THEN t.pool ELSE pool,
                 ran |-> TRUE,
                 err |-> FALSE ]

\* One Reconcile of the budget controller.
BudgetReconcile ==
  /\ UNCHANGED notBG
  /\ \/ \* Get fails, or the scope's pods cannot be listed
        /\ enf' = [enf EXCEPT !.last = "aborted", !.due = FALSE, !.ran = FALSE]
        /\ UNCHANGED << budget, policy >>
     \/ \E currentSpend \in SpendLevels, listErr \in BOOLEAN, updateErr \in BOOLEAN,
           statusErr \in BOOLEAN :
          LET st == checkAlerts(updateBudgetStatus(budget.Status, currentSpend, now))
              e == enforceBudget(budget.Enforcement, st, policy, now, listErr, updateErr)
              count == IF st.BudgetStatus # "exceeded" THEN 0
                       ELSE IF e.ran THEN Min(enf.applied + 1, 2)
                       ELSE enf.applied
          IN  /\ policy' = e.pool
              /\ budget' = IF statusErr THEN budget ELSE [budget EXCEPT !.Status = e.st]
              /\ enf' = [ last |-> IF statusErr THEN "status-error"
                                   ELSE IF e.err THEN "enforce-error" ELSE "done",
                          due |-> /\ st.BudgetStatus = "exceeded"
                                  /\ budget.Enforcement # Nil
                                  /\ GraceElapsed(budget.Enforcement, st, now),
                          applied |-> count,
                          sent |-> IF Len(st.AlertsFired) > Len(budget.Status.AlertsFired)
                                   THEN Min(enf.sent + 1, 2) ELSE enf.sent,
                          ran |-> e.ran,
                          exceeded |-> st.BudgetStatus = "exceeded",
                          waited |-> IF st.ExceededSince = ZeroTime THEN -1
                                     ELSE now - st.ExceededSince ]

\* A user acknowledges the alerts on record in the CostBudget status.
Acknowledge ==
  /\ \E i \in 1..Len(budget.Status.AlertsFired) : ~budget.Status.AlertsFired[i].Acknowledged
  /\ Len(budget.Status.AlertsFired) <= MaxAcknowledged
  /\ budget' = [budget EXCEPT !.Status.AlertsFired =
                  [i \in 1..Len(@) |-> [@[i] EXCEPT !.Acknowledged = TRUE]]]
  /\ enf' = [enf EXCEPT !.sent = 0]
  /\ UNCHANGED << notBG, policy >>

NextBudget == BudgetReconcile \/ Acknowledge \/ Tick

----
(***************************************************************************)
(* Spot interruption orchestrator (pkg/autoscaler/metrics.go, SpotOrchestrator). *)
(***************************************************************************)
EvictionPriorityHigh == "high"
EvictionPriorityMedium == "medium"
EvictionPriorityLow == "low"

SpotNodes == {"n1", "n2"}

\* The pods on the spot nodes: the node, the eviction-priority annotation,
\* the workload-type label and the pod priority ("" and 0 when absent).
SpotPods ==
  [ a |-> [node |-> "n1", annotation |-> "", workloadType |-> "development", priority |-> 0],
    b |-> [node |-> "n1", annotation |-> "", workloadType |-> "inference", priority |-> 0],
    c |-> [node |-> "n1", annotation |-> "", workloadType |-> "training", priority |-> 0],
    d |-> [node |-> "n2", annotation |-> "low", workloadType |-> "training", priority |-> 0],
    e |-> [node |-> "n2", annotation |-> "", workloadType |-> "", priority |-> 2000],
    f |-> [node |-> "n2", annotation |-> "critical", workloadType |-> "inference",
           priority |-> 0] ]

getPodEvictionPriority(pod) ==
  IF pod.annotation # "" THEN pod.annotation
  ELSE IF pod.workloadType = "training" THEN EvictionPriorityHigh
  ELSE IF pod.workloadType \in {"inference", "serving"} THEN EvictionPriorityMedium
  ELSE IF pod.workloadType \in {"development", "batch"} THEN EvictionPriorityLow
  ELSE IF pod.priority > 1000 THEN EvictionPriorityHigh
  ELSE EvictionPriorityMedium

\* The position of a wave in the drain order.
WaveRank(priority) ==
  IF priority = EvictionPriorityLow THEN 1
  ELSE IF priority = EvictionPriorityMedium THEN 2 ELSE 3

NoDrain == [pc |-> "idle", low |-> {}, medium |-> {}, high |-> {}]

\* The drains started on a node are counted up to MaxDrains.
MaxDrains == 2

InitSpot ==
  /\ spot = [n \in SpotNodes |-> [notice |-> FALSE, annotated |-> FALSE, unsched |-> FALSE]]
  /\ terminationWarnings = {}
  /\ drain = [n \in SpotNodes |-> NoDrain]
  /\ alive = DOMAIN SpotPods
  /\ waves = [n \in SpotNodes |->
                [issued |-> 0, outOfOrder |-> FALSE, polled |-> FALSE, drains |-> 0]]

\* The cloud announces that it reclaims a spot node.
CloudNotice(n) ==
  /\ ~spot[n].notice
  /\ spot' = [spot EXCEPT ![n].notice = TRUE]
  /\ UNCHANGED << notSO, terminationWarnings, drain, alive, waves >>

\* An operator sets the interruption-warning annotation on a node by hand
\* (docs/phase3-autoscaling-engine.md, "Test Eviction Handling").
OperatorAnnotate(n) ==
  /\ ~spot[n].annotated
  /\ spot' = [spot EXCEPT ![n].annotated = TRUE]
  /\ UNCHANGED << notSO, terminationWarnings, drain, alive, waves >>

\* What checkSpotTerminations can meet at a node: the notice query fails, the
\* annotation update fails, the cordon update fails, or all calls succeed.
HandleOutcomes == {"notice-err", "annotate-err", "cordon-err", "ok"}

\* handleSpotTermination reaches the node: it has a notice, the query
\* succeeded, and the node is not in terminationWarnings.
Handled(n, out) ==
  spot[n].notice /\ out[n] # "notice-err" /\ n \notin terminationWarnings

\* One tick of MonitorSpotInstances: checkSpotTerminations over the spot nodes.
checkSpotTerminations ==
  /\ UNCHANGED << notSO, alive >>
  /\ \/ \* getSpotNodes fails
        UNCHANGED << spot, terminationWarnings, drain, waves >>
     \/ \E out \in [SpotNodes -> HandleOutcomes] :
          /\ terminationWarnings' =
               terminationWarnings \cup { n \in SpotNodes : Handled(n, out) }
          /\ spot' = [ n \in SpotNodes |->
                         IF ~Handled(n, out) \/ out[n] = "annotate-err" THEN spot[n]
                         ELSE IF out[n] = "cordon-err"
                         THEN [spot[n] EXCEPT !.annotated = TRUE]
                         ELSE [spot[n] EXCEPT !.annotated = TRUE, !.unsched = TRUE] ]
          /\ drain' = [ n \in SpotNodes |->
                          IF Handled(n, out) /\ out[n] = "ok"
                          THEN [NoDrain EXCEPT !.pc = "start"] ELSE drain[n] ]
          /\ waves' = [ n \in SpotNodes |->
                          [ waves[n] EXCEPT
                              !.polled = @ \/ ( /\ spot[n].notice \/ spot[n].annotated
                                                /\ out[n] # "notice-err" ),
                              !.drains = IF Handled(n, out) /\ out[n] = "ok"
                                         THEN Min(@ + 1, MaxDrains) ELSE @ ] ]

\* evictPods on the node n: a Delete per pod of the wave, failing for the
\* pods in failed; the wave's evictions are recorded.
evictPods(n, pods, priority, failed) ==
  /\ alive' = alive \ (pods \ failed)
  /\ waves' = IF pods = {} THEN waves
              ELSE [waves EXCEPT
                      ![n].issued = IF WaveRank(priority) > @ THEN WaveRank(priority) ELSE @,
                      ![n].outOfOrder = @ \/ WaveRank(priority) < waves[n].issued]

\* gracefullyEvictPods up to its first pause: list the node's pods, sort them
\* by priority, evict the low-priority ones.
DrainStart(n) ==
  /\ drain[n].pc = "start"
  /\ UNCHANGED << notSO, spot, terminationWarnings >>
  /\ \/ \* listing the pods fails: the goroutine returns
        /\ drain' = [drain EXCEPT ![n] = NoDrain]
        /\ UNCHANGED << alive, waves >>
     \/ LET listed == { p \in alive : SpotPods[p].node = n }
            of(priority) ==
              { p \in listed : getPodEvictionPriority(SpotPods[p]) = priority }
        IN  \E failed \in SUBSET of(EvictionPriorityLow) :
              /\ drain' = [drain EXCEPT ![n] =
                             [ pc |-> "medium",
                               low |-> of(EvictionPriorityLow),
                               medium |-> of(EvictionPriorityMedium),
                               high |-> of(EvictionPriorityHigh) ]]
              /\ evictPods(n, of(EvictionPriorityLow), EvictionPriorityLow, failed)

\* After the first pause: evict the medium-priority pods.
DrainMedium(n) ==
  /\ drain[n].pc = "medium"
  /\ UNCHANGED << notSO, spot, terminationWarnings >>
  /\ \E failed \in SUBSET drain[n].medium :
       /\ drain' = [drain EXCEPT ![n].pc = "high"]
       /\ evictPods(n, drain[n].medium, EvictionPriorityMedium, failed)

\* After the second pause: evict the high-priority pods and forget the warning.
DrainHigh(n) ==
  /\ drain[n].pc = "high"
  /\ UNCHANGED << notSO, spot >>
  /\ \E failed \in SUBSET drain[n].high :
       /\ drain' = [drain EXCEPT ![n] = NoDrain]
       /\ evictPods(n, drain[n].high, EvictionPriorityHigh, failed)
       /\ terminationWarnings' = terminationWarnings \ {n}

\* The controller shuts down: the context of MonitorSpotInstances is
\* cancelled.  The drains run on context.Background() in goroutines of their
\* own and go on until the process exits.
Running == stop = [done |-> FALSE, pcAt |-> [n \in SpotNodes |-> "idle"]]

Shutdown ==
  /\ ~stop.done
  /\ stop' = [done |-> TRUE, pcAt |-> [n \in SpotNodes |-> drain[n].pc]]
  /\ UNCHANGED notStop

\* MonitorSpotInstances returns on ctx.Done(): no tick after the shutdown.
MonitorSpotInstances ==
  /\ ~stop.done
  /\ checkSpotTerminations

NextSpotStop ==
  \/ \E n \in SpotNodes : CloudNotice(n)
  \/ MonitorSpotInstances
  \/ Shutdown
  \/ \E n \in SpotNodes : DrainStart(n)
  \/ \E n \in SpotNodes : DrainMedium(n)
  \/ \E n \in SpotNodes : DrainHigh(n)

NextSpot ==
  \/ \E n \in SpotNodes : CloudNotice(n)
  \/ \E n \in SpotNodes : OperatorAnnotate(n)
  \/ checkSpotTerminations
  \/ \E n \in SpotNodes : DrainStart(n)
  \/ \E n \in SpotNodes : DrainMedium(n)
  \/ \E n \in SpotNodes : DrainHigh(n)

----
(***************************************************************************)
(* GPU optimization admission webhook (pkg/webhook).  Memory is in MiB.    *)
(* A pod has one container; gpuReq is its nvidia.com/gpu request (0: no    *)
(* such key), gpuLim its nvidia.com/gpu limit (0: no such key, -1: the     *)
(* Limits map is nil).  Annotations and labels are "" when absent.         *)
(***************************************************************************)
MIGProfiles ==
  << [Name |-> "1g.5gb", Memory |-> 5120, Compute |-> 1],
     [Name |-> "2g.10gb", Memory |-> 10240, Compute |-> 2],
     [Name |-> "3g.20gb", Memory |-> 20480, Compute |-> 3],
     [Name |-> "4g.20gb", Memory |-> 20480, Compute |-> 4],
     [Name |-> "7g.40gb", Memory |-> 40960, Compute |-> 7],
     [Name |-> "1g.10gb", Memory |-> 10240, Compute |-> 1],
     [Name |-> "2g.20gb", Memory |-> 20480, Compute |-> 2],
     [Name |-> "3g.40gb", Memory |-> 40960, Compute |-> 3],
     [Name |-> "4g.40gb", Memory |-> 40960, Compute |-> 4],
     [Name |-> "7g.80gb", Memory |-> 81920, Compute |-> 7] >>

\* The pods a client submits.
PodInputs ==
  { [ workloadType |-> wt, sharingMode |-> sm, sharing |-> sh, optimize |-> op,
      optimized |-> od, strategy |-> "", timestamp |-> "",
      originalGPURequest |-> "", sharingAnnotation |-> "",
      gpuReq |-> gr, gpuLim |-> gl, migDevice |-> "", migReq |-> 0, migLim |-> 0,
      memory |-> mem,
      nodeSelector |-> "", toleration |-> "" ] :
      wt \in {"", "training", "inference", "batch"}, sm \in {"", "mig"},
      sh \in {"", "enabled"}, op \in {"", "false"}, od \in {"", "true"},
      gr \in {0, 1, 2}, gl \in {-1, 1, 2}, mem \in {4096, 102400} }

\* The "timestamp" value of the request context ("" when it has none).
ContextTimestamps == {"", "t1", "t2"}

\* A step of a conversion: the pod, or an error, or a panic.
Done(pod) == [st |-> "ok", pod |-> pod]
Failed(pod) == [st |-> "err", pod |-> pod]
Panicked(pod) == [st |-> "panic", pod |-> pod]

hasGPURequest(pod) == pod.gpuReq > 0 \/ pod.gpuLim > 0

\* The smallest index of a profile that fits, 0 if none does.
GetMIGProfile(gpuRequest, memoryMB) ==
  LET fits == { i \in DOMAIN MIGProfiles :
                  /\ MIGProfiles[i].Compute >= gpuRequest
                  /\ MIGProfiles[i].Memory >= memoryMB }
  IN  IF fits = {} THEN 0 ELSE CHOOSE i \in fits : \A j \in fits : i <= j

GetMIGDeviceResourceName(profile) == "nvidia.com/mig-" \o profile.Name

\* Only a container whose Requests hold the whole-GPU key is rewritten; a
\* container that names it in its Limits alone keeps it.  Writing Limits[...]
\* of a container with a nil Limits map panics.
ConvertPodToMIG(pod, profile) ==
  LET noted == [pod EXCEPT !.originalGPURequest = ToString(pod.gpuReq),
                           !.sharingAnnotation = profile.Name]
  IN  IF pod.gpuReq = 0 THEN Done(noted)
      ELSE IF pod.gpuLim = -1 THEN Panicked(pod)
      ELSE Done([noted EXCEPT !.gpuReq = 0, !.gpuLim = 0,
                              !.migDevice = GetMIGDeviceResourceName(profile),
                              !.migReq = 1, !.migLim = 1])

ConvertPodToMPS(pod) ==
  LET noted == [pod EXCEPT !.originalGPURequest = ToString(pod.gpuReq),
                           !.sharingAnnotation = "mps-enabled",
                           !.nodeSelector = "nvidia.com/mps.enabled"]
  IN  IF pod.gpuReq = 0 THEN Done(noted)
      ELSE IF pod.gpuLim = -1 THEN Panicked(pod)
      ELSE Done([noted EXCEPT !.gpuLim = pod.gpuReq])

ConvertPodToTimeSlicing(pod) ==
  LET noted == [pod EXCEPT !.originalGPURequest = ToString(pod.gpuReq),
                           !.sharingAnnotation = "time-slicing-enabled",
                           !.nodeSelector = "nvidia.com/time-slicing.enabled",
                           !.toleration = "nvidia.com/time-slicing"]
  IN  IF pod.gpuReq = 0 THEN Done(noted)
      ELSE IF pod.gpuLim = -1 THEN Panicked(pod)
      ELSE Done([noted EXCEPT !.gpuLim = pod.gpuReq])

\* The optimization metadata; ctx.Value("timestamp").(string) panics when
\* the context carries no timestamp.
Stamp(converted, strategy, ts) ==
  IF converted.st # "ok" THEN converted
  ELSE IF ts = "" THEN Panicked(converted.pod)
  ELSE Done([converted.pod EXCEPT !.optimized = "true", !.strategy = strategy,
                                  !.timestamp = ts])

applyMIGOptimization(pod, ts) ==
  LET profile == GetMIGProfile(pod.gpuReq, pod.memory)
  IN  IF profile = 0 THEN Failed(pod)
      ELSE Stamp(ConvertPodToMIG(pod, MIGProfiles[profile]), "mig", ts)

applyMPSOptimization(pod, ts) == Stamp(ConvertPodToMPS(pod), "mps", ts)

applyTimeSlicingOptimization(pod, ts) ==
  Stamp(ConvertPodToTimeSlicing(pod), "timeslicing", ts)

selectOptimizationStrategy(cfg, pod) ==
  IF pod.sharingMode # "" THEN pod.sharingMode
  ELSE IF pod.workloadType = "training" THEN "exclusive"
  ELSE IF cfg.enableMIG /\ pod.gpuReq = 1 /\ pod.memory < 20 * 1024 THEN "mig"
  ELSE IF cfg.enableMPS /\ pod.workloadType = "inference" THEN "mps"
  ELSE IF cfg.enableTS /\ pod.workloadType \in {"development", "batch"}
  THEN "timeslicing"
  ELSE IF pod.sharing = "enabled" /\ cfg.enableMPS THEN "mps"
  ELSE IF pod.sharing = "enabled" /\ cfg.enableTS THEN "timeslicing"
  ELSE "exclusive"

\* The admission response: allowed (with the patched pod, if any), errored
\* with an HTTP code, or no response because the handler panicked.
Response(kind, code, pod) == [kind |-> kind, code |-> code, pod |-> pod]

Handle(cfg, pod, ts, decodeErr) ==
  IF decodeErr THEN Response("errored", 400, pod)
  ELSE IF ~hasGPURequest(pod) THEN Response("allowed", 200, pod)
  ELSE IF pod.optimize = "false" THEN Response("allowed", 200, pod)
  ELSE
    LET strategy == selectOptimizationStrategy(cfg, pod)
        applied ==
          IF strategy = "mig" /\ cfg.enableMIG THEN applyMIGOptimization(pod, ts)
          ELSE IF strategy = "mps" /\ cfg.enableMPS THEN applyMPSOptimization(pod, ts)
          ELSE IF strategy = "timeslicing" /\ cfg.enableTS
          THEN applyTimeSlicingOptimization(pod, ts)
          ELSE [st |-> "unmodified", pod |-> pod]
    IN  IF applied.st = "panic" THEN Response("panic", 0, pod)
        ELSE IF applied.st = "ok" THEN Response("patched", 200, applied.pod)
        ELSE Response("allowed", 200, pod)

\* A mutation step of Handle fails for the pod: it returns an error or panics.
MutationFails(cfg, pod, ts) ==
  LET strategy == selectOptimizationStrategy(cfg, pod)
  IN  /\ hasGPURequest(pod) /\ pod.optimize # "false"
      /\ \/ strategy = "mig" /\ cfg.enableMIG
              /\ applyMIGOptimization(pod, ts).st # "ok"
         \/ strategy = "mps" /\ cfg.enableMPS
              /\ applyMPSOptimization(pod, ts).st # "ok"
         \/ strategy = "timeslicing" /\ cfg.enableTS
              /\ applyTimeSlicingOptimization(pod, ts).st # "ok"

WebhookConfigs == [enableMIG : BOOLEAN, enableMPS : BOOLEAN, enableTS : BOOLEAN]

NoRequest ==
  [pass |-> 0, pod |-> [gpuReq |-> 0], decoded |-> TRUE, failed |-> FALSE,
   response |-> Response("none", 0, [gpuReq |-> 0])]

IdleWebhook ==
  wh = [cfg |-> [enableMIG |-> FALSE, enableMPS |-> FALSE, enableTS |-> FALSE],
        req |-> NoRequest]

InitWebhook == \E cfg \in WebhookConfigs : wh = [cfg |-> cfg, req |-> NoRequest]

Serve(pass, pod, ts, decodeErr) ==
  /\ wh' = [wh EXCEPT !.req =
              [ pass |-> pass, pod |-> pod, decoded |-> ~decodeErr,
                failed |-> decodeErr \/ MutationFails(wh.cfg, pod, ts),
                response |-> Handle(wh.cfg, pod, ts, decodeErr) ]]
  /\ UNCHANGED notWH

\* The API server sends a pod that is being created.
Admit ==
  /\ wh.req.pass = 0
  /\ \E pod \in PodInputs, ts \in ContextTimestamps, decodeErr \in BOOLEAN :
       Serve(1, pod, ts, decodeErr)

\* The API server sends the admitted pod again (an update, or a reinvocation).
Readmit ==
  /\ wh.req.pass \in {1, 2}
  /\ wh.req.response.kind \in {"allowed", "patched"}
  /\ \E ts \in ContextTimestamps, decodeErr \in BOOLEAN :
       Serve(2, wh.req.response.pod, ts, decodeErr)

NextWebhook == Admit \/ Readmit

----
(***************************************************************************)
(* Cost tracker and cost attribution (pkg/cost).  Money is in cents, a     *)
(* tick of the clock is one hour, a sharing factor is in percent.          *)
(***************************************************************************)
\* The running GPU pods: GPU count, price per GPU hour of the node's GPU
\* type and capacity type, sharing mode, start time.
CostPods ==
  [ p1 |-> [GPUCount |-> 1, PricePerGPUHour |-> 400, SharingMode |-> "exclusive",
            StartTime |-> 0],
    p2 |-> [GPUCount |-> 2, PricePerGPUHour |-> 100, SharingMode |-> "mps",
            StartTime |-> 0] ]

getSharingFactor(mode) ==
  IF mode = "mig" THEN 100
  ELSE IF mode \in {"mps", "timeslicing"} THEN 25 ELSE 100

\* calculatePodCost for a pod in the cache, variant that overwrites the total.
accrue_Overwrite(podCost, at) ==
  [podCost EXCEPT !.TotalCost = podCost.HourlyRate * (at - podCost.LastUpdated),
                  !.LastUpdated = at]

\* calculatePodCost for a pod in the cache.
accrue(podCost, at) ==
  [podCost EXCEPT !.TotalCost = @ + podCost.HourlyRate * (at - podCost.LastUpdated),
                  !.LastUpdated = at]

\* calculatePodCost for a pod that is in the cache (cache[p]) or new.
calculatePodCost(cache, p, at) ==
  IF p \in DOMAIN cache THEN accrue(cache[p], at)
  ELSE
    LET pod == CostPods[p]
        base == pod.PricePerGPUHour * pod.GPUCount
        hourlyRate ==
          IF pod.SharingMode # "exclusive"
          THEN (base * getSharingFactor(pod.SharingMode)) \div 100 ELSE base
    IN  [ GPUCount |-> pod.GPUCount, StartTime |-> pod.StartTime,
          HourlyRate |-> hourlyRate,
          TotalCost |-> hourlyRate * (at - pod.StartTime),
          LastUpdated |-> at ]

\* GetTotalCost over the pods in S.
RECURSIVE SumTotalCost(_, _)
SumTotalCost(cache, S) ==
  IF S = {} THEN 0
  ELSE LET p == CHOOSE x \in S : TRUE
       IN  cache[p].TotalCost + SumTotalCost(cache, S \ {p})

NoPodCosts == [p \in {} |-> 0]

NoAccrual == [made |-> FALSE, old |-> 0, new |-> 0, rate |-> 0, dt |-> 0]

InitCost ==
  /\ podCostCache = NoPodCosts
  /\ attribution = [TotalCost |-> 0, before |-> 0, reconciles |-> 0]
  /\ accrual = [p \in DOMAIN CostPods |-> NoAccrual]

\* One tick of CostTracker.Start: updateCosts.  All pods of CostPods are
\* listed; the node of a new pod may fail to be read (nodeErr).  The rows
\* written to cost_data are never read back into the cache.
updateCosts ==
  /\ UNCHANGED << notCT, attribution >>
  /\ \/ \* listing the pods fails
        UNCHANGED << podCostCache, accrual >>
     \/ \E nodeErr \in SUBSET DOMAIN CostPods :
          LET listed == DOMAIN CostPods
              costed == { p \in listed : p \in DOMAIN podCostCache \/ p \notin nodeErr }
              cache == [p \in costed |-> calculatePodCost(podCostCache, p, now)]
          IN  /\ podCostCache' = cache
              /\ accrual' = [ p \in DOMAIN CostPods |->
                                IF p \in costed /\ p \in DOMAIN podCostCache
                                THEN [ made |-> TRUE,
                                       old |-> podCostCache[p].TotalCost,
                                       new |-> cache[p].TotalCost,
                                       rate |-> podCostCache[p].HourlyRate,
                                       dt |-> now - podCostCache[p].LastUpdated ]
                                ELSE accrual[p] ]

\* The controller process restarts: NewCostTracker starts with an empty cache.
RestartCost ==
  /\ DOMAIN podCostCache # {}
  /\ podCostCache' = NoPodCosts
  /\ UNCHANGED << notCT, attribution, accrual >>

\* AttributionController.Reconcile: updateAttributionStatus and Status().Update.
\* The attribution matches all pods of CostPods.
AttributionReconcile ==
  /\ UNCHANGED << notCT, podCostCache, accrual >>
  /\ \/ \* getMatchingPods or Status().Update fails
        UNCHANGED attribution
     \/ LET found == DOMAIN CostPods \cap DOMAIN podCostCache
        IN  attribution' =
              [ TotalCost |-> SumTotalCost(podCostCache, found),
                before |-> attribution.TotalCost,
                reconciles |-> IF attribution.reconciles = 0 THEN 1 ELSE 2 ]

NextCost ==
  updateCosts \/ RestartCost \/ AttributionReconcile \/ Tick

----
(***************************************************************************)
(* Scope spend of a budget, read from the cost_data table                   *)
(* (budget_controller.go calculateScopeSpend, roi_reporter.go               *)
(* TimescaleDBClient).  The budget controller is configured with a DB; the  *)
(* budget period starts at time 0.                                          *)
(***************************************************************************)
\* The workloads whose cost the tracker persists; each started at time 0.
ScopePodOrder == << "p1", "p2", "p3" >>

ScopePods ==
  [ p1 |-> [Namespace |-> "ml", Team |-> "nlp", HourlyRate |-> 3],
    p2 |-> [Namespace |-> "ml", Team |-> "cv", HourlyRate |-> 1],
    p3 |-> [Namespace |-> "web", Team |-> "nlp", HourlyRate |-> 2] ]

\* BudgetScope: the namespaces and the teams a budget lists.
BudgetScopes ==
  [ Namespaces : { << >>, << "ml" >> }, Teams : { << >>, << "nlp" >> } ]

\* The row of cost_data written for pod p at time at.
CostDataPoint(p, at) ==
  [ time |-> at, pod_name |-> p, namespace |-> ScopePods[p].Namespace,
    team |-> ScopePods[p].Team, hourly_rate |-> ScopePods[p].HourlyRate,
    cumulative_cost |-> ScopePods[p].HourlyRate * at ]

\* COALESCE(MAX(x), 0) over the values in S.
CoalesceMax(S) == IF S = {} THEN 0 ELSE CHOOSE x \in S : \A y \in S : y <= x

GetCostByNamespace(data, namespace, start, end) ==
  CoalesceMax({ r.cumulative_cost :
                  r \in { x \in data : /\ x.namespace = namespace
                                       /\ x.time >= start /\ x.time <= end } })

\* SUM over the latest row of each (pod_name, namespace) of the team.
GetCostByTeam(data, team, start, end) ==
  LET rows == { x \in data : x.team = team /\ x.time >= start /\ x.time <= end }
      latest(p) == { r \in rows : /\ r.pod_name = p
                                  /\ \A o \in rows : o.pod_name = p => o.time <= r.time }
  IN  SumSeq([ i \in 1..Len(ScopePodOrder) |->
                 IF latest(ScopePodOrder[i]) = {} THEN 0
                 ELSE (CHOOSE r \in latest(ScopePodOrder[i]) : TRUE).cumulative_cost ])

\* The sum of the namespace queries of the scope; failedNs are the namespaces
\* whose query returns an error.
NamespaceSpend(data, scope, start, end, failedNs) ==
  SumSeq([ i \in 1..Len(scope.Namespaces) |->
             IF scope.Namespaces[i] \in failedNs THEN 0
             ELSE GetCostByNamespace(data, scope.Namespaces[i], start, end) ])

TeamSpend(data, scope, start, end, failedTeams) ==
  SumSeq([ i \in 1..Len(scope.Teams) |->
             IF scope.Teams[i] \in failedTeams THEN 0
             ELSE GetCostByTeam(data, scope.Teams[i], start, end) ])

calculateScopeSpend(data, scope, start, end, failedNs, failedTeams) ==
  NamespaceSpend(data, scope, start, end, failedNs)
    + TeamSpend(data, scope, start, end, failedTeams)

NoScopeSpend ==
  [ queried |-> FALSE, scope |-> [Namespaces |-> << >>, Teams |-> << >>],
    totalSpend |-> 0, namespaceSpend |-> 0 ]

InitScope ==
  /\ costData = {}
  /\ scopeSpend = NoScopeSpend

\* updateCosts persists the cost of the pods; a failed insert is only logged.
InsertCostDataPoint ==
  /\ \E written \in SUBSET DOMAIN ScopePods :
       /\ written # {}
       /\ costData' = costData \cup { CostDataPoint(p, now) : p \in written }
  /\ UNCHANGED << now, notDB, scopeSpend >>

\* updateBudgetStatus computes the spend of the budget's scope for the period
\* from the start of the month to now.
ScopeSpend ==
  /\ \E scope \in BudgetScopes, nsErr \in BOOLEAN, teamErr \in BOOLEAN :
       LET failedNs == IF nsErr THEN { "ml" } ELSE {}
           failedTeams == IF teamErr THEN { "nlp" } ELSE {}
       IN  scopeSpend' =
             [ queried |-> TRUE, scope |-> scope,
               totalSpend |-> calculateScopeSpend(costData, scope, 0, now,
                                                  failedNs, failedTeams),
               namespaceSpend |-> NamespaceSpend(costData, scope, 0, now, {}) ]
  /\ UNCHANGED << now, notDB, costData >>

\* INSERT ... ON CONFLICT (time, pod_name, namespace) DO UPDATE SET
\* cumulative_cost, hourly_rate: the row with the same primary key is
\* updated in these two columns, any other row is kept.
Upsert(data, row) ==
  LET hit == { x \in data : /\ x.time = row.time /\ x.pod_name = row.pod_name
                            /\ x.namespace = row.namespace }
  IN  IF hit = {} THEN data \cup { row }
      ELSE (data \ hit)
             \cup { [x EXCEPT !.cumulative_cost = row.cumulative_cost,
                              !.hourly_rate = row.hourly_rate] : x \in hit }

\* The values of PodCost.LastUpdated, in seconds: two instants of one minute
\* and one of the next.
InsertTimes == {0, 30, 60}

\* The PodCost of one pod is persisted with time = LastUpdated, the instant
\* of its last accrual, which never goes back.
PersistPodCost ==
  /\ \E p \in {"p1", "p2"}, LastUpdated \in InsertTimes,
        HourlyRate \in {1, 2}, TotalCost \in {1, 2} :
       /\ \A x \in costData : x.time <= LastUpdated
       /\ costData' =
            Upsert(costData,
                   [ time |-> LastUpdated, pod_name |-> p,
                     namespace |-> ScopePods[p].Namespace, team |-> ScopePods[p].Team,
                     hourly_rate |-> HourlyRate, cumulative_cost |-> TotalCost ])
  /\ UNCHANGED << now, notDB, scopeSpend >>

NextUpsert == PersistPodCost

NextScope == InsertCostDataPoint \/ ScopeSpend \/ Tick

----
(***************************************************************************)
(* calculateScaleDownNodeCount as a function of its inputs: a node list of  *)
(* any length above MinNodes and a count of under-utilized nodes, as        *)
(* shouldScaleDown lets through.                                            *)
(***************************************************************************)
NoCalc == [len |-> 0, underutilized |-> 0, called |-> FALSE, targetNodes |-> 0]

IdleCalc == downCalc = NoCalc

InitCalc ==
  \E len \in (MinNodes + 1)..MaxListed :
    \E underutilized \in 1..len :
      downCalc = [NoCalc EXCEPT !.len = len, !.underutilized = underutilized]

ScaleDownCount ==
  /\ ~downCalc.called
  /\ downCalc' =
       [downCalc EXCEPT
          !.called = TRUE,
          !.targetNodes =
             calculateScaleDownNodeCount(
               [i \in 1..downCalc.len |-> [cap |-> CapacityTypeOnDemand, unsched |-> FALSE]],
               downCalc.underutilized)]
  /\ UNCHANGED notCalc

NextCalc == ScaleDownCount

----
(***************************************************************************)
(* Resource names, as the characters the code slices and compares.         *)
(***************************************************************************)
NvidiaDomain == << "n", "v", "i", "d", "i", "a", ".", "c", "o", "m", "/" >>
ResourceGPU == NvidiaDomain \o << "g", "p", "u" >>
PrefixMIG == NvidiaDomain \o << "m", "i", "g", "-" >>
ResourceMIG1g5gb == PrefixMIG \o << "1", "g", ".", "5", "g", "b" >>
ResourceCPU == << "c", "p", "u" >>

\* s[:k] of Go; the callers guard against k > len(s).
Slice(s, k) == SubSeq(s, 1, k)

NoCall == [fn |-> "none", called |-> FALSE]

IdleCall == call = NoCall

----
(***************************************************************************)
(* Pending GPU pods of the decision engine (controller.go                   *)
(* getPendingGPUPods, isGPUPod).  A pod is its phase and the resource names *)
(* its container requests.                                                  *)
(***************************************************************************)
PendingPodShapes ==
  [ Phase : {"Pending", "Running"},
    Requests : SUBSET {ResourceGPU, ResourceMIG1g5gb, ResourceCPU} ]

PodLists ==
  UNION { [1..k -> PendingPodShapes] : k \in 0..MaxPods }

\* resourceName[:11] is compared with the 15 characters of "nvidia.com/mig-".
isGPUPod(pod) ==
  \/ ResourceGPU \in pod.Requests
  \/ \E resourceName \in pod.Requests :
       Len(resourceName) > 11 /\ Slice(resourceName, 11) = PrefixMIG

getPendingGPUPods(podList) ==
  SelectSeq(podList, LAMBDA pod : pod.Phase = "Pending" /\ isGPUPod(pod))

InitPending ==
  \E podList \in PodLists :
    call = [fn |-> "getPendingGPUPods", called |-> FALSE, podList |-> podList]

PendingList ==
  /\ call.fn = "getPendingGPUPods" /\ ~call.called
  /\ \/ \* r.List fails
        call' = [fn |-> call.fn, called |-> TRUE, podList |-> call.podList,
                 err |-> TRUE, pendingPods |-> << >>]
     \/ call' = [fn |-> call.fn, called |-> TRUE, podList |-> call.podList,
                 err |-> FALSE, pendingPods |-> getPendingGPUPods(call.podList)]
  /\ UNCHANGED notCall

NextPending == PendingList

----
(***************************************************************************)
(* analyzeClusterState as a function of what its calls return, on a cluster *)
(* above MinNodes without pending pods and with no cooldown running.  Each  *)
(* GetGPUMetrics call, one for the average and one per node, fails or       *)
(* succeeds on its own.  victims are the nodes scaleDown then selects for    *)
(* removal from the same node list.                                         *)
(***************************************************************************)
MetricsCalls(n) ==
  [ err : BOOLEAN, nodeErr : SUBSET (1..n), util : [1..n -> UtilLevels] ]

InitAnalyze ==
  \E n \in (MinNodes + 1)..MaxNodes :
    \E m \in MetricsCalls(n) :
      call = [fn |-> "analyzeClusterState", called |-> FALSE, n |-> n, m |-> m]

Analyze ==
  /\ call.fn = "analyzeClusterState" /\ ~call.called
  /\ \/ \* listing the nodes or the pods fails
        call' = [fn |-> call.fn, called |-> TRUE, n |-> call.n, m |-> call.m,
                 err |-> TRUE, decision |-> NoDecision, victims |-> << >>]
     \/ \E listed \in { [i \in 1..call.n |->
                              [cap |-> CapacityTypeOnDemand, unsched |-> FALSE]] } :
          \E d \in { analyzeClusterState(listed, 0, 0, call.m, Predict({}, now), now) } :
            call' = [fn |-> call.fn, called |-> TRUE, n |-> call.n, m |-> call.m,
                     err |-> FALSE, decision |-> d,
                     victims |-> IF d.Action = ScaleDown
                                 THEN selectNodesToRemove(listed, d) ELSE << >>]
  /\ UNCHANGED notCall

NextAnalyze == Analyze

----
(***************************************************************************)
(* The classification of one GPU pod by the webhook's Handle, as a function *)
(* of the switches and of the pod's labels, annotations and requests.       *)
(***************************************************************************)
ClassifyPods ==
  { [ workloadType |-> wt, sharingMode |-> sm, sharing |-> sh, optimize |-> op,
      optimized |-> "", strategy |-> "", timestamp |-> "",
      originalGPURequest |-> "", sharingAnnotation |-> "",
      gpuReq |-> gr, gpuLim |-> gr, migDevice |-> "", migReq |-> 0, migLim |-> 0,
      memory |-> mem,
      nodeSelector |-> "", toleration |-> "" ] :
      wt \in {"", "training", "inference", "serving", "development", "batch"},
      sm \in {"", "mps"}, sh \in {"", "enabled", "disabled"}, op \in {"", "false"},
      gr \in {1, 2}, mem \in {4096, 102400} }

InitClassify ==
  \E cfg \in WebhookConfigs, pod \in ClassifyPods :
    call = [fn |-> "Handle", called |-> FALSE, cfg |-> cfg, pod |-> pod]

\* Handle on a decoded pod with a timestamp in the context; strategy is what
\* selectOptimizationStrategy returns when Handle comes to call it.
Classify ==
  /\ call.fn = "Handle" /\ ~call.called
  /\ call' = [ fn |-> call.fn, called |-> TRUE, cfg |-> call.cfg, pod |-> call.pod,
               strategy |->
                 IF hasGPURequest(call.pod) /\ call.pod.optimize # "false"
                 THEN selectOptimizationStrategy(call.cfg, call.pod)
                 ELSE "none",
               response |-> Handle(call.cfg, call.pod, "t1", FALSE) ]
  /\ UNCHANGED notCall

NextClassify == Classify

----
(***************************************************************************)
(* MIGManager.GetMIGProfile as a function of its arguments (mig.go).        *)
(* Memory requests are in KiB here, so that 100 GiB fits the integers of    *)
(* the model checker; the profiles' memory is in MiB as in the table.       *)
(***************************************************************************)
KiBPerMiB == 1024
GiB == 1024 * 1024

\* memoryRequest / (1024 * 1024) of a request in bytes: an integer division.
MemoryMB(memoryRequest) == memoryRequest \div KiBPerMiB

GPURequests == 0..(MaxGPURequest)

MemoryRequests ==
  { 0, 4 * GiB, 5 * GiB, 5 * GiB + 1, 8 * GiB, 10 * GiB, 18 * GiB, 20 * GiB,
    30 * GiB, 40 * GiB, 80 * GiB, 100 * GiB }

InitProfile ==
  \E gpuRequest \in GPURequests, memoryRequest \in MemoryRequests :
    call = [ fn |-> "GetMIGProfile", called |-> FALSE,
             gpuRequest |-> gpuRequest, memoryRequest |-> memoryRequest ]

\* profile is the index of the profile returned, 0 with the error.
SelectProfile ==
  /\ call.fn = "GetMIGProfile" /\ ~call.called
  /\ call' = [ fn |-> call.fn, called |-> TRUE,
               gpuRequest |-> call.gpuRequest, memoryRequest |-> call.memoryRequest,
               profile |-> GetMIGProfile(call.gpuRequest, MemoryMB(call.memoryRequest)) ]
  /\ UNCHANGED notCall

NextProfile == SelectProfile

----
(***************************************************************************)
(* The GPU pods of the cost tracker: isGPUPod and getGPUCount of the cost   *)
(* package read the Requests of the containers of a pod.                    *)
(***************************************************************************)
\* The keys a container of a running pod may request: the whole-GPU key, the
\* shared-GPU key, the key the admission rewriter writes for each MIG
\* profile, and a key that is no GPU.
RequestKeys ==
  {"nvidia.com/gpu", "nvidia.com/gpu-shared", "cpu"}
    \cup { GetMIGDeviceResourceName(MIGProfiles[i]) : i \in DOMAIN MIGProfiles }

MaxContainers == 2
MaxQuantity == 2

\* A pod as the sequence of its containers, each with one entry in Requests.
RunningPods ==
  UNION { [1..n -> [key : RequestKeys, qty : 1..MaxQuantity]] : n \in 1..MaxContainers }

\* The keys the cost package looks up.
CostGPUKeys == {"nvidia.com/gpu", "nvidia.com/mig-1g.5gb", "nvidia.com/gpu-shared"}

isGPUPod_cost(pod) == \E i \in DOMAIN pod : pod[i].key \in CostGPUKeys

getGPUCount(pod) ==
  SumSeq([i \in DOMAIN pod |-> IF pod[i].key \in CostGPUKeys THEN pod[i].qty ELSE 0])

InitBilled ==
  \E pod \in RunningPods : call = [fn |-> "isGPUPod", called |-> FALSE, pod |-> pod]

\* updateCosts: a running pod that is no GPU pod is skipped, a GPU pod is
\* accrued with its GPU count.
TrackPod ==
  /\ call.fn = "isGPUPod" /\ ~call.called
  /\ call' = [ fn |-> call.fn, called |-> TRUE, pod |-> call.pod,
               tracked |-> isGPUPod_cost(call.pod),
               gpuCount |-> IF isGPUPod_cost(call.pod) THEN getGPUCount(call.pod) ELSE 0 ]
  /\ UNCHANGED notCall

NextBilled == TrackPod

----
(***************************************************************************)
(* The predictive scaler over weeks of a recurring load: each weekday at    *)
(* BusyHour every node is busy, at any other hour every node is idle.  The  *)
(* controller calls PredictFutureLoad every hour (its reconcile interval is *)
(* shorter); call.at is the wall clock in hours.                            *)
(***************************************************************************)
MaxHours == 528
BusyHour == 9
PredictNodes == 2

\* What GetGPUMetrics returns at wall-clock time t.
RecurringLoad(t) ==
  [ err |-> FALSE, nodeErr |-> {},
    util |-> [ i \in 1..PredictNodes |->
                 IF Weekday(t) \in 1..5 /\ HourOf(t) = BusyHour THEN 90 ELSE 0 ] ]

\* The scaler is constructed with no patterns on any day of the first week.
InitRecurring ==
  \E d \in 0..6 :
    call = [ fn |-> "PredictFutureLoad", called |-> FALSE, at |-> d * Day,
             patterns |-> {}, lastUpdate |-> ZeroTime,
             prediction |-> [ShouldPreWarm |-> FALSE, RecommendedNodes |-> 0] ]

\* An hour passes and the next reconcile calls PredictFutureLoad.
PredictHourly ==
  /\ call.fn = "PredictFutureLoad" /\ call.at < MaxHours
  /\ \E at \in { call.at + 1 } :
       \E pf \in { PredictFutureLoad(call.patterns, call.lastUpdate, at, RecurringLoad(at)) } :
         call' = [ fn |-> call.fn, called |-> TRUE, at |-> at,
                   patterns |-> pf.patterns, lastUpdate |-> pf.lastUpdate,
                   prediction |-> pf.prediction ]
  /\ UNCHANGED notCall

NextRecurring == PredictHourly

----
(***************************************************************************)
(* The decision of analyzeClusterState as a function of the patterns the    *)
(* predictive scaler holds, followed by the pool lookup of scaleUp.  The    *)
(* pattern set is an input here: patterns for the weekday and hour of the   *)
(* call and for the hour after it.                                          *)
(***************************************************************************)
PatternSets ==
  { {} }
    \cup { { [DayOfWeek |-> 0, HourOfDay |-> h, AvgUtilization |-> u, PodsCount |-> c] :
               h \in {0, 1} } : u \in {50, 90}, c \in {8, 40} }

InitOverride ==
  \E n \in 0..MaxNodes :
    \E m \in MetricsInputs(n), pending \in PendingInputs, ps \in PatternSets :
      call = [ fn |-> "applyPredictiveScaling", called |-> FALSE,
               n |-> n, m |-> m, pending |-> pending, patterns |-> ps ]

\* poolFound: whether scaleUp finds the pool the decision names.
Override ==
  /\ call.fn = "applyPredictiveScaling" /\ ~call.called
  /\ \E listed \in { [i \in 1..call.n |->
                         [cap |-> CapacityTypeOnDemand, unsched |-> FALSE]] } :
       \E d \in { analyzeClusterState(listed, call.pending[1], call.pending[2], call.m,
                                      Predict(call.patterns, now), now) } :
         call' = [ fn |-> call.fn, called |-> TRUE, n |-> call.n, m |-> call.m,
                   pending |-> call.pending, patterns |-> call.patterns,
                   prediction |-> Predict(call.patterns, now),
                   decision |-> d,
                   poolFound |-> getNodePoolByName(d.NodePool) # Nil ]
  /\ UNCHANGED notCall

NextOverride == Override

----
(***************************************************************************)
(* The PodCost cache as its goroutines see it.  The tracker's goroutine    *)
(* runs calculatePodCost and updateCosts' Store for one cached pod, one    *)
(* statement at a time; another goroutine calls GetPodCost and reads two   *)
(* fields of the struct it was handed.  sync.Map's Load and Store are      *)
(* atomic and ordered; reads and writes of struct fields are plain.        *)
(***************************************************************************)
MaxAccruals == 3
MaxClock == 3

NoMem == [fn |-> "none"]
IdleMem == sharedMem = NoMem

notMem == << now, asVars, bgVars, soVars, wh, ctVars, dbVars, downCalc, call, stop >>

\* podCost := *oldCost: a new struct holding the fields of the old one; the
\* result is the heap with the new struct in it, and the new struct's address.
Clone_Alias(heap, old) == [heap |-> heap, ptr |-> old]

Clone(heap, old) == [heap |-> Append(heap, heap[old]), ptr |-> Len(heap) + 1]

\* What a reader can tell two structs apart by.
Fields(s) == [TotalCost |-> s.TotalCost, LastUpdated |-> s.LastUpdated]

\* The cache holds one pod, put there by the new-pod branch of
\* calculatePodCost at time 0.
InitCow ==
  \E rate \in 1 .. 2 :
    sharedMem = [ fn |-> "podCostCache",
            heap |-> << [HourlyRate |-> rate, TotalCost |-> 0, LastUpdated |-> 0] >>,
            cached |-> 1,
            published |-> { [TotalCost |-> 0, LastUpdated |-> 0] },
            clock |-> 0,
            w |-> [pc |-> "idle", old |-> 0, new |-> 0, elapsed |-> 0],
            r |-> [pc |-> "idle", ptr |-> 0, TotalCost |-> 0, LastUpdated |-> 0, newer |-> 0] ]

\* time.Now(), and time.Since which calls it: the clock may have moved on.
ClockReads == { c \in {sharedMem.clock, sharedMem.clock + 1} : c <= MaxClock }

\* cached, ok := ct.podCostCache.Load(podKey); oldCost := cached.(*PodCost)
CowLoad ==
  /\ sharedMem.fn = "podCostCache" /\ sharedMem.w.pc = "idle"
  /\ Len(sharedMem.heap) <= MaxAccruals
  /\ sharedMem' = [sharedMem EXCEPT !.w.pc = "loaded", !.w.old = sharedMem.cached]
  /\ UNCHANGED notMem

\* podCost := *oldCost
CowCopy ==
  /\ sharedMem.fn = "podCostCache" /\ sharedMem.w.pc = "loaded"
  /\ \E c \in { Clone(sharedMem.heap, sharedMem.w.old) } :
       sharedMem' = [sharedMem EXCEPT !.heap = c.heap, !.w.new = c.ptr, !.w.pc = "copied"]
  /\ UNCHANGED notMem

\* elapsed := time.Since(podCost.LastUpdated)
CowSince ==
  /\ sharedMem.fn = "podCostCache" /\ sharedMem.w.pc = "copied"
  /\ \E c \in ClockReads :
       sharedMem' = [sharedMem EXCEPT !.clock = c,
                          !.w.elapsed = c - sharedMem.heap[sharedMem.w.new].LastUpdated,
                          !.w.pc = "timed"]
  /\ UNCHANGED notMem

\* podCost.TotalCost += podCost.HourlyRate * elapsed.Hours()
CowAdd ==
  /\ sharedMem.fn = "podCostCache" /\ sharedMem.w.pc = "timed"
  /\ sharedMem' = [sharedMem EXCEPT
               !.heap[sharedMem.w.new].TotalCost =
                 @ + sharedMem.heap[sharedMem.w.new].HourlyRate * sharedMem.w.elapsed,
               !.w.pc = "added"]
  /\ UNCHANGED notMem

\* podCost.LastUpdated = time.Now()
CowStamp ==
  /\ sharedMem.fn = "podCostCache" /\ sharedMem.w.pc = "added"
  /\ \E c \in ClockReads :
       sharedMem' = [sharedMem EXCEPT !.clock = c,
                          !.heap[sharedMem.w.new].LastUpdated = c,
                          !.w.pc = "stamped"]
  /\ UNCHANGED notMem

\* ct.podCostCache.Store(podKey, &podCost); return &podCost, nil
CowStore ==
  /\ sharedMem.fn = "podCostCache" /\ sharedMem.w.pc = "stamped"
  /\ sharedMem' = [sharedMem EXCEPT !.cached = sharedMem.w.new,
                        !.published = @ \cup {Fields(sharedMem.heap[sharedMem.w.new])},
                        !.w.pc = "returned"]
  /\ UNCHANGED notMem

\* updateCosts: ct.podCostCache.Store(podKey, podCost), the pointer that
\* calculatePodCost returned; the gauges after it only read the struct.
CowStoreAgain ==
  /\ sharedMem.fn = "podCostCache" /\ sharedMem.w.pc = "returned"
  /\ sharedMem' = [sharedMem EXCEPT !.cached = sharedMem.w.new,
                        !.published = @ \cup {Fields(sharedMem.heap[sharedMem.w.new])},
                        !.w.pc = "idle"]
  /\ UNCHANGED notMem

\* GetPodCost: the cached pointer itself is handed to the caller.
GetPodCost ==
  /\ sharedMem.fn = "podCostCache" /\ sharedMem.r.pc \in {"idle", "read"}
  /\ sharedMem' = [sharedMem EXCEPT !.r = [pc |-> "got", ptr |-> sharedMem.cached,
                               TotalCost |-> 0, LastUpdated |-> 0, newer |-> 0]]
  /\ UNCHANGED notMem

\* The caller reads podCost.TotalCost.
ReadTotalCost ==
  /\ sharedMem.fn = "podCostCache" /\ sharedMem.r.pc = "got"
  /\ sharedMem' = [sharedMem EXCEPT !.r.TotalCost = sharedMem.heap[sharedMem.r.ptr].TotalCost,
                        !.r.pc = "half"]
  /\ UNCHANGED notMem

\* The caller reads podCost.LastUpdated.
ReadLastUpdated ==
  /\ sharedMem.fn = "podCostCache" /\ sharedMem.r.pc = "half"
  /\ sharedMem' = [sharedMem EXCEPT !.r.LastUpdated = sharedMem.heap[sharedMem.r.ptr].LastUpdated,
                        !.r.pc = "read",
                        !.r.newer = Len(sharedMem.heap) - sharedMem.r.ptr]
  /\ UNCHANGED notMem

NextCow ==
  \/ CowLoad \/ CowCopy \/ CowSince \/ CowAdd \/ CowStamp \/ CowStore
  \/ CowStoreAgain \/ GetPodCost \/ ReadTotalCost \/ ReadLastUpdated

----
(***************************************************************************)
(* The pricing client's cache as its goroutines see it.  One goroutine     *)
(* runs GetGPUPricing, another ClearCache.  priceCache is a sync.Map held  *)
(* by value in the PricingClient: its Load, Delete and Store are atomic    *)
(* and ordered among themselves, but an assignment to the field is a plain *)
(* write of the several words of the struct, which nothing orders with     *)
(* them.  An operation that runs while that write is in progress finds the *)
(* map half-written and can come out either way.                           *)
(***************************************************************************)
MaxClears == 2

PriceKeys == {"a100:spot", "a100:on-demand"}

\* cacheDuration: 1 * time.Hour, the unit of the clock here.
cacheDuration == 1

InitPricing ==
  sharedMem = [ fn |-> "priceCache",
               entries |-> {},                     \* the CachedPrice of each key: [key, ExpiresAt]
               clock |-> 0,
               lookup |-> [pc |-> "idle", key |-> "", cached |-> FALSE],
               clear |-> [pc |-> "idle", during |-> {}],
               assigned |-> 0,
               raced |-> FALSE ]

Writing == sharedMem.clear.pc = "writing"

PricingTick ==
  /\ sharedMem.fn = "priceCache"
  /\ sharedMem.clock < MaxClock
  /\ sharedMem' = [sharedMem EXCEPT !.clock = @ + 1]
  /\ UNCHANGED notMem

\* GetGPUPricing up to its return of a cached price: priceCache.Load, and the
\* test of ExpiresAt on a hit.
Cached(key) == { e \in sharedMem.entries : e.key = key }

Fresh(key) == \E e \in Cached(key) : sharedMem.clock < e.ExpiresAt

Without(entries, key) == { e \in entries : e.key # key }

With(entries, key, at) == Without(entries, key) \cup {[key |-> key, ExpiresAt |-> at]}

LookupLoad ==
  /\ sharedMem.fn = "priceCache" /\ sharedMem.lookup.pc = "idle"
  /\ \E key \in PriceKeys :
     \E ok \in IF Writing THEN {Cached(key) # {}, FALSE} ELSE {Cached(key) # {}} :
       sharedMem' = [sharedMem EXCEPT
         !.lookup = [ pc |-> IF ~ok THEN "fetching"
                             ELSE IF Fresh(key) THEN "idle" ELSE "expired",
                      key |-> key,
                      cached |-> ok /\ Fresh(key) ],
         !.raced = @ \/ Writing ]
  /\ UNCHANGED notMem


\* Expired - remove from cache: pc.priceCache.Delete(cacheKey)
LookupDelete ==
  /\ sharedMem.fn = "priceCache" /\ sharedMem.lookup.pc = "expired"
  /\ \E e \in IF Writing THEN {sharedMem.entries, Without(sharedMem.entries, sharedMem.lookup.key)}
                          ELSE {Without(sharedMem.entries, sharedMem.lookup.key)} :
       sharedMem' = [sharedMem EXCEPT !.entries = e,
                                    !.lookup.pc = "fetching",
                                    !.raced = @ \/ Writing]
  /\ UNCHANGED notMem

\* The price is fetched or estimated, and cached: pc.priceCache.Store(cacheKey,
\* &CachedPrice{Pricing: pricing, ExpiresAt: time.Now().Add(pc.cacheDuration)})
LookupStore ==
  /\ sharedMem.fn = "priceCache" /\ sharedMem.lookup.pc = "fetching"
  /\ sharedMem' = [sharedMem EXCEPT
       !.entries = With(@, sharedMem.lookup.key, sharedMem.clock + cacheDuration),
       !.lookup.pc = "idle",
       !.lookup.cached = FALSE,
       !.clear.during = IF Writing THEN @ \cup {sharedMem.lookup.key} ELSE @,
       !.raced = @ \/ Writing ]
  /\ UNCHANGED notMem

\* ClearCache: pc.priceCache = sync.Map{}, the write begun.
ClearBegin ==
  /\ sharedMem.fn = "priceCache" /\ sharedMem.clear.pc = "idle"
  /\ sharedMem.assigned < MaxClears
  /\ sharedMem' = [sharedMem EXCEPT !.clear = [pc |-> "writing", during |-> {}]]
  /\ UNCHANGED notMem

\* ClearCache: the write done.  The map is empty, but for what an operation
\* that ran during the write has left in the words written before it.
ClearEnd ==
  /\ sharedMem.fn = "priceCache" /\ Writing
  /\ \E kept \in SUBSET sharedMem.clear.during :
       sharedMem' = [sharedMem EXCEPT
         !.entries = { e \in @ : e.key \in kept },
         !.clear = [pc |-> "idle", during |-> {}],
         !.assigned = @ + 1 ]
  /\ UNCHANGED notMem

NextPricing ==
  \/ PricingTick \/ LookupLoad \/ LookupDelete \/ LookupStore
  \/ ClearBegin \/ ClearEnd

----
(***************************************************************************)
(* terminationWarnings as its goroutines see it.  The polling loop runs    *)
(* handleSpotTermination one statement at a time; each drain it starts is  *)
(* a goroutine of its own that ends with the delete.  The map is a plain   *)
(* Go map and the orchestrator holds no lock: nothing orders an access of  *)
(* the loop with the delete of a drain.  Go leaves the outcome of a map    *)
(* access that runs during a map write open: the runtime may stop the      *)
(* process ("concurrent map read and map write"), or the access completes. *)
(***************************************************************************)
InitWarnings ==
  sharedMem = [ fn |-> "terminationWarnings",
                notice |-> {},                                \* nodes the cloud reclaims
                warnings |-> {},                              \* the keys of the map
                poll |-> [pc |-> "idle", node |-> ""],
                drainPc |-> [n \in SpotNodes |-> "none"],
                drains |-> [n \in SpotNodes |-> 0],
                fatal |-> FALSE ]

Live == sharedMem.fn = "terminationWarnings" /\ ~sharedMem.fatal

\* The polling loop is at a statement that reads or writes the map.
PollAtMap == sharedMem.poll.pc \in {"exists", "record"}

\* A drain goroutine is at its delete.
DrainAtDelete == \E n \in SpotNodes : sharedMem.drainPc[n] = "deleting"

\* The outcomes of a map access: it completes, or, when a conflicting
\* access of another goroutine is under way, the runtime may stop the process.
Fatal(conflict) == IF conflict THEN {FALSE, TRUE} ELSE {FALSE}

WarnNotice(n) ==
  /\ Live /\ n \notin sharedMem.notice
  /\ sharedMem' = [sharedMem EXCEPT !.notice = @ \cup {n}]
  /\ UNCHANGED notMem

\* checkSpotTerminations finds the notice of n and calls handleSpotTermination.
PollCall(n) ==
  /\ Live /\ sharedMem.poll.pc = "idle"
  /\ n \in sharedMem.notice
  /\ sharedMem.drains[n] < MaxDrains
  /\ sharedMem' = [sharedMem EXCEPT !.poll = [pc |-> "exists", node |-> n]]
  /\ UNCHANGED notMem

\* if _, exists := s.terminationWarnings[nodeName]; exists { return nil }
PollExists ==
  /\ Live /\ sharedMem.poll.pc = "exists"
  /\ \E f \in Fatal(DrainAtDelete) :
       sharedMem' = [sharedMem EXCEPT
         !.fatal = f,
         !.poll.pc = IF sharedMem.poll.node \in sharedMem.warnings
                     THEN "idle" ELSE "record"]
  /\ UNCHANGED notMem

\* s.terminationWarnings[nodeName] = terminationTime
PollRecord ==
  /\ Live /\ sharedMem.poll.pc = "record"
  /\ \E f \in Fatal(DrainAtDelete) :
       sharedMem' = [sharedMem EXCEPT
         !.fatal = f,
         !.warnings = @ \cup {sharedMem.poll.node},
         !.poll.pc = "update"]
  /\ UNCHANGED notMem

\* The two node updates, and go s.gracefullyEvictPods(...) when both succeed.
PollUpdate ==
  /\ Live /\ sharedMem.poll.pc = "update"
  /\ \E ok \in BOOLEAN :
       sharedMem' = [sharedMem EXCEPT
         !.poll = [pc |-> "idle", node |-> ""],
         !.drainPc[sharedMem.poll.node] = IF ok THEN "evicting" ELSE @,
         !.drains[sharedMem.poll.node] = IF ok THEN @ + 1 ELSE @]
  /\ UNCHANGED notMem

\* gracefullyEvictPods up to its delete: the list of the pods (the goroutine
\* returns when it fails) and the three waves with their pauses.
DrainWaves(n) ==
  /\ Live /\ sharedMem.drainPc[n] = "evicting"
  /\ \E listed \in BOOLEAN :
       sharedMem' = [sharedMem EXCEPT
         !.drainPc[n] = IF listed THEN "deleting" ELSE "none"]
  /\ UNCHANGED notMem

\* delete(s.terminationWarnings, node.Name)
DrainDelete(n) ==
  /\ Live /\ sharedMem.drainPc[n] = "deleting"
  /\ \E f \in Fatal(PollAtMap) :
       sharedMem' = [sharedMem EXCEPT
         !.fatal = f,
         !.warnings = @ \ {n},
         !.drainPc[n] = "none"]
  /\ UNCHANGED notMem

NextWarnings ==
  \/ \E n \in SpotNodes : WarnNotice(n)
  \/ \E n \in SpotNodes : PollCall(n)
  \/ PollExists \/ PollRecord \/ PollUpdate
  \/ \E n \in SpotNodes : DrainWaves(n)
  \/ \E n \in SpotNodes : DrainDelete(n)

----
(***************************************************************************)
(* Specifications, one per component: the other components stay idle.       *)
(***************************************************************************)
AutoscalerAlone ==
  InitAutoscaler /\ IdleBudget /\ InitSpot /\ IdleWebhook /\ InitCost /\ InitScope
  /\ IdleCalc /\ IdleCall /\ Running /\ IdleMem

SpecAutoscaler == AutoscalerAlone /\ [][NextAutoscaler]_vars

\* The decision engine next to a budget whose throttle enforcement has been
\* applied: the budget controller has blocked spot creation on the policy's
\* spot pool (the state of SpecBudget after the Reconcile that enforces it,
\* one grace period after the budget was exceeded).
ThrottledAlone ==
  /\ now = 1
  /\ nodes \in InitialClusters
  /\ provisioning = << >>
  /\ lastScaleUpTime = ZeroTime
  /\ lastScaleDownTime = ZeroTime
  /\ scalingHistory = << >>
  /\ patterns = {}
  /\ lastUpdate = ZeroTime
  /\ decision = NoDecision
  /\ tick = NoTick
  /\ budget =
       [ Enforcement |->
           [ Action |-> "throttle", GracePeriodMinutes |-> 1,
             ThrottleConfig |-> [BlockSpotCreation |-> TRUE, MaxSpotInstances |-> 0] ],
         Status |->
           [ CurrentSpend |-> 1050, BudgetStatus |-> "exceeded",
             AlertsFired |-> << [AlertName |-> "warn", Acknowledged |-> FALSE] >>,
             EnforcementActive |-> TRUE, ExceededSince |-> 0 ] ]
  /\ policy = [MinNodes |-> 0, MaxNodes |-> 0]
  /\ enf = [ last |-> "done", due |-> TRUE, applied |-> 1, sent |-> 1,
             ran |-> TRUE, exceeded |-> TRUE, waited |-> 1 ]
  /\ InitSpot /\ IdleWebhook /\ InitCost /\ InitScope
  /\ IdleCalc /\ IdleCall /\ Running /\ IdleMem

SpecThrottled == ThrottledAlone /\ [][NextAutoscaler]_vars

BudgetAlone ==
  InitBudget /\ IdleAutoscaler /\ InitSpot /\ IdleWebhook /\ InitCost /\ InitScope
  /\ IdleCalc /\ IdleCall /\ Running /\ IdleMem

SpecBudget == BudgetAlone /\ [][NextBudget]_vars

\* Reconcile requeues itself after one minute, so it keeps running.
SpecBudgetLive == SpecBudget /\ WF_vars(BudgetReconcile)

SpotAlone ==
  InitSpot /\ now = 0 /\ IdleAutoscaler /\ IdleBudget /\ IdleWebhook /\ InitCost
  /\ InitScope /\ IdleCalc /\ IdleCall /\ Running /\ IdleMem

SpecSpot == SpotAlone /\ [][NextSpot]_vars

\* The ticker of MonitorSpotInstances keeps firing and a started drain
\* goroutine runs to its end.
SpecSpotLive ==
  /\ SpecSpot
  /\ WF_vars(checkSpotTerminations)
  /\ \A n \in SpotNodes :
       WF_vars(DrainStart(n)) /\ WF_vars(DrainMedium(n)) /\ WF_vars(DrainHigh(n))

\* The spot orchestrator with the shutdown of the controller.
SpecSpotStop == SpotAlone /\ [][NextSpotStop]_vars

WebhookAlone ==
  InitWebhook /\ now = 0 /\ IdleAutoscaler /\ IdleBudget /\ InitSpot /\ InitCost
  /\ InitScope /\ IdleCalc /\ IdleCall /\ Running /\ IdleMem

SpecWebhook == WebhookAlone /\ [][NextWebhook]_vars

CostAlone ==
  InitCost /\ now = 0 /\ IdleAutoscaler /\ IdleBudget /\ InitSpot /\ IdleWebhook
  /\ InitScope /\ IdleCalc /\ IdleCall /\ Running /\ IdleMem

SpecCost == CostAlone /\ [][NextCost]_vars

ScopeAlone ==
  InitScope /\ now = 0 /\ IdleAutoscaler /\ IdleBudget /\ InitSpot /\ IdleWebhook
  /\ InitCost /\ IdleCalc /\ IdleCall /\ Running /\ IdleMem

SpecScope == ScopeAlone /\ [][NextScope]_vars

CalcAlone ==
  InitCalc /\ now = 0 /\ IdleAutoscaler /\ IdleBudget /\ InitSpot /\ IdleWebhook
  /\ InitCost /\ InitScope /\ IdleCall /\ Running /\ IdleMem

SpecCalc == CalcAlone /\ [][NextCalc]_vars

\* What every specification of a single function starts from, the inputs of
\* the call excepted.
OthersIdle ==
  /\ now = 0 /\ IdleAutoscaler /\ IdleBudget /\ InitSpot /\ IdleWebhook
  /\ InitCost /\ InitScope /\ IdleCalc /\ Running /\ IdleMem

PendingAlone == InitPending /\ OthersIdle

AnalyzeAlone == InitAnalyze /\ OthersIdle

ClassifyAlone == InitClassify /\ OthersIdle

ProfileAlone == InitProfile /\ OthersIdle

SpecProfile == ProfileAlone /\ [][NextProfile]_vars

OverrideAlone == InitOverride /\ OthersIdle

SpecOverride == OverrideAlone /\ [][NextOverride]_vars

RecurringAlone == InitRecurring /\ OthersIdle

\* The reconcile loop keeps running, so the hourly call keeps being made.
SpecRecurring == RecurringAlone /\ [][NextRecurring]_vars /\ WF_vars(PredictHourly)

UpsertAlone == IdleCall /\ OthersIdle

SpecUpsert == UpsertAlone /\ [][NextUpsert]_vars

BilledAlone == InitBilled /\ OthersIdle

CowAlone ==
  /\ InitCow
  /\ now = 0 /\ IdleAutoscaler /\ IdleBudget /\ InitSpot /\ IdleWebhook /\ InitCost
  /\ InitScope /\ IdleCalc /\ IdleCall /\ Running

SpecCow == CowAlone /\ [][NextCow]_vars

PricingAlone ==
  /\ InitPricing
  /\ now = 0 /\ IdleAutoscaler /\ IdleBudget /\ InitSpot /\ IdleWebhook /\ InitCost
  /\ InitScope /\ IdleCalc /\ IdleCall /\ Running

SpecPricing == PricingAlone /\ [][NextPricing]_vars

WarningsAlone ==
  /\ InitWarnings
  /\ now = 0 /\ IdleAutoscaler /\ IdleBudget /\ InitSpot /\ IdleWebhook /\ InitCost
  /\ InitScope /\ IdleCalc /\ IdleCall /\ Running

SpecWarnings == WarningsAlone /\ [][NextWarnings]_vars

SpecBilled == BilledAlone /\ [][NextBilled]_vars

SpecClassify == ClassifyAlone /\ [][NextClassify]_vars

SpecAnalyze == AnalyzeAlone /\ [][NextAnalyze]_vars

SpecPending == PendingAlone /\ [][NextPending]_vars

----
(***************************************************************************)
(* Properties of the decision engine.                                       *)
(***************************************************************************)
\* A Reconcile that produced a decision.
Decided == tick.result \in {"no-action", "ok", "error"}

\* C1: when the last scale-up is less than the scale-up cooldown ago, the
\* decision a Reconcile ends with, predictive override included, is not
\* scale-up.
C1_NoScaleUpInCooldown ==
  (Decided /\ tick.upCooling) => decision.Action # ScaleUp

\* A Reconcile ran inside the scale-up cooldown with pods pending or the
\* cluster busy, and decided.
C1_Witness ==
  /\ Decided
  /\ tick.upCooling
  /\ tick.n < MaxNodes
  /\ lastScaleUpTime # ZeroTime
  /\ decision.Action # ScaleUp

\* C2: the target node count of a scaling decision lies between the
\* configured minimum and maximum, whichever step set it.
C2_TargetWithinBounds ==
  (Decided /\ decision.Action # NoAction)
    => (MinNodes <= decision.DesiredNodeCount /\ decision.DesiredNodeCount <= MaxNodes)

\* C3: when a cloud call fails during a scale-up or a scale-down and none
\* succeeds, the cooldown timer of that direction is not advanced.
C3_TimerOnlyOnSuccess ==
  (tick.cloudErrs > 0 /\ tick.cloudOks = 0)
    => (~tick.upAdvanced /\ ~tick.downAdvanced)

\* C13: a Reconcile whose context is cancelled part-way advances no
\* cooldown timer.
C13_CancelledAdvancesNothing ==
  tick.cancelled => (~tick.upAdvanced /\ ~tick.downAdvanced)

\* C18: a scale-down Reconcile removes no more than 20% of the nodes it
\* lists.
C18_AtMostTwentyPercentRemoved ==
  (decision.Action = ScaleDown /\ tick.result = "ok")
    => tick.cloudOks * 5 <= tick.listed

\* C20: a scale-up Reconcile that reaches the cloud provider asks it for
\* DesiredNodeCount minus the current node count nodes.
C20_AddsTargetMinusCurrent ==
  (decision.Action = ScaleUp /\ tick.cloudOks + tick.cloudErrs > 0)
    => tick.nodesToAdd = decision.DesiredNodeCount - tick.n

\* C21: a scale-up decided on the nodes still listed chooses spot exactly
\* when the share of spot nodes is below SpotInstancePercentage, the share of
\* an empty cluster being 0, and on-demand otherwise.
C21_SpotBelowTargetShare ==
  ( /\ decision.Action = ScaleUp /\ decision.CapacityType # ""
    /\ tick.result \in {"ok", "error"} /\ tick.n = Len(nodes) )
    => LET spotNodes == Len(SelectIdx(nodes, CapacityTypeSpot, 1))
           below == spotNodes * 100 < SpotInstancePercentage * Len(nodes)
                      \/ Len(nodes) = 0
       IN  decision.CapacityType =
             IF below THEN CapacityTypeSpot ELSE CapacityTypeOnDemand

\* C35: a scale-up never asks the cloud for a spot node beyond the maximum
\* of the policy's spot pool, also when budget throttling has lowered that
\* maximum or set it to zero.
C35_NoGrowthBeyondPoolMax ==
  ( /\ decision.Action = ScaleUp
    /\ decision.CapacityType = CapacityTypeSpot
    /\ tick.cloudOks + tick.cloudErrs > 0 )
    => LET spotNodes == Len(SelectIdx(nodes, CapacityTypeSpot, 1))
           requested ==
             Cardinality({ i \in DOMAIN provisioning :
                             provisioning[i] = CapacityTypeSpot })
               + (IF tick.cloudOks = 0 THEN tick.nodesToAdd ELSE 0)
       IN  spotNodes + requested <= policy.MaxNodes

----
(***************************************************************************)
(* Properties of the budget controller.                                     *)
(***************************************************************************)
\* C4: for a budget that is exceeded with its grace period over, the next
\* Reconcile applies the enforcement action exactly once: a Reconcile that
\* gets to its end has applied it, and while the budget stays exceeded the
\* action is never applied a second time.
C4_EnforcedExactlyOnce ==
  /\ enf.applied <= 1
  /\ (enf.last = "done" /\ enf.due) => enf.applied = 1

C12_AlertSentOnce == enf.sent <= 1

\* C14: a Reconcile applies the enforcement action only when it classified
\* the budget as exceeded and ExceededSince is unset or at least the grace
\* period old; inside the grace window no action is applied.
C14_EnforcedOnlyAfterGrace ==
  enf.ran =>
    /\ enf.exceeded
    /\ enf.waited = -1 \/ enf.waited >= budget.Enforcement.GracePeriodMinutes

C14_Witness ==
  /\ enf.ran
  /\ budget.Enforcement.GracePeriodMinutes > 0
  /\ enf.waited >= budget.Enforcement.GracePeriodMinutes

\* C15: once a Reconcile has stored a classification other than "exceeded",
\* the spot pool of the AutoscalingPolicy eventually has its declared bounds
\* again.
C15_ThrottleReverted ==
  (enf.last = "done" /\ budget.Status.BudgetStatus # "exceeded")
    ~> (policy = DeclaredPool)

\* C16: when a Reconcile has applied throttle enforcement, the spot pool has
\* min = max = 0 if spot creation is blocked and otherwise a max no larger
\* than the cap, and the stored status has EnforcementActive and ExceededSince
\* set.
C16_ThrottleClampsPool ==
  ( /\ enf.ran /\ enf.last = "done"
    /\ budget.Enforcement.Action = "throttle" )
    => /\ IF budget.Enforcement.ThrottleConfig.BlockSpotCreation
          THEN policy.MinNodes = 0 /\ policy.MaxNodes = 0
          ELSE policy.MaxNodes <= budget.Enforcement.ThrottleConfig.MaxSpotInstances
       /\ budget.Status.EnforcementActive
       /\ budget.Status.ExceededSince # ZeroTime

\* C34: while the stored status of a budget with throttle enforcement has
\* EnforcementActive, the throttle is in effect on the policy's spot pool: a
\* policy update that failed is not recorded as applied.
C34_ActiveMeansThrottled ==
  ( /\ budget.Enforcement # Nil
    /\ budget.Enforcement.Action = "throttle"
    /\ budget.Status.EnforcementActive )
    => IF budget.Enforcement.ThrottleConfig.BlockSpotCreation
       THEN policy.MinNodes = 0 /\ policy.MaxNodes = 0
       ELSE policy.MaxNodes <= budget.Enforcement.ThrottleConfig.MaxSpotInstances

----
(***************************************************************************)
(* Properties of the spot interruption orchestrator.                        *)
(***************************************************************************)
\* C5: for a node under reclamation the eviction waves run in strict order:
\* no low-priority eviction is issued after a medium-priority or high-priority
\* one, and no medium-priority eviction after a high-priority one.
C5_WavesInOrder == \A n \in SpotNodes : ~waves[n].outOfOrder

\* C6: a node that carries a reclamation notice or the warning annotation is
\* unschedulable once the poll of the interval has looked at it.
C6_CordonedWithinInterval ==
  \A n \in SpotNodes : waves[n].polled => spot[n].unsched

\* C24: after the shutdown a drain that had not started its first wave runs
\* that wave at most: it never comes to the wave after the second pause.
C24_NoLaterWaveAfterShutdown ==
  \A n \in SpotNodes :
    (stop.done /\ stop.pcAt[n] = "start") => drain[n].pc # "high"

\* C37: for the one reclamation notice of a node the drain is started at
\* most once, also when the notice is still seen after the drain has ended.
C37_DrainStartedOnce == \A n \in SpotNodes : waves[n].drains <= 1

\* C33: every pod that runs on a node when its drain starts is eventually
\* evicted, whatever its eviction-priority annotation.
C33_EveryPodEventuallyEvicted ==
  \A p \in DOMAIN SpotPods :
    (drain[SpotPods[p].node].pc = "start" /\ p \in alive) ~> (p \notin alive)

----
(***************************************************************************)
(* Properties of the admission webhook.                                    *)
(***************************************************************************)
\* C7: the rewriter is idempotent: a pass over a pod that already carries
\* the "optimized" annotation admits the pod unchanged.
C7_SecondPassUnchanged ==
  (wh.req.pass > 0 /\ wh.req.decoded /\ wh.req.pod.optimized = "true")
    => /\ wh.req.response.kind \in {"allowed", "patched"}
       /\ wh.req.response.pod = wh.req.pod

\* C8: the rewriter is fail-open: when decoding the request or a mutation
\* step fails, the response admits the pod with its original spec.
C8_FailOpen ==
  (wh.req.pass > 0 /\ wh.req.failed)
    => (wh.req.response.kind = "allowed" /\ wh.req.response.pod = wh.req.pod)

----
(***************************************************************************)
(* Properties of the cost tracker and the cost attribution.                *)
(***************************************************************************)
\* C9: an accrual of a PodCost never lowers its total, and raises it by the
\* hourly rate times the time since the previous update.
C9_AccrualIsRateTimesElapsed ==
  \A p \in DOMAIN CostPods :
    accrual[p].made =>
      /\ accrual[p].new >= accrual[p].old
      /\ accrual[p].new - accrual[p].old = accrual[p].rate * accrual[p].dt

C9_Witness ==
  \E p \in DOMAIN CostPods :
    accrual[p].made /\ accrual[p].old > 0 /\ accrual[p].dt > 0

\* C10: over the lifetime of the attributed pods the total cost of the
\* CostAttribution never decreases from one reconcile to the next, a
\* restart of the controller included.
C10_TotalNeverDecreases ==
  attribution.reconciles = 2 => attribution.TotalCost >= attribution.before

----
(***************************************************************************)
(* Properties of the scope spend.                                           *)
(***************************************************************************)
\* C17: for a scope that lists both namespaces and teams the computed spend
\* is never more than the sum of the namespace queries: the teams add no
\* second summand.
C17_NoDoubleCounting ==
  ( /\ scopeSpend.queried
    /\ scopeSpend.scope.Namespaces # << >>
    /\ scopeSpend.scope.Teams # << >> )
    => scopeSpend.totalSpend <= scopeSpend.namespaceSpend

\* C30: the spend computed for a namespace over a period is the sum, over
\* the workloads of the namespace, of the latest cumulative cost of each in
\* the period.
C30_NamespaceSpendIsSumOfLatest ==
  [][ ( /\ scopeSpend' # scopeSpend
        /\ scopeSpend'.scope.Namespaces = << "ml" >> )
        => LET rows == { x \in costData : x.namespace = "ml" /\ x.time <= now }
               latest(p) ==
                 { r \in rows : /\ r.pod_name = p
                                /\ \A o \in rows : o.pod_name = p => o.time <= r.time }
           IN  scopeSpend'.namespaceSpend =
                 SumSeq([ i \in 1..Len(ScopePodOrder) |->
                            IF latest(ScopePodOrder[i]) = {} THEN 0
                            ELSE (CHOOSE r \in latest(ScopePodOrder[i]) : TRUE).cumulative_cost ])
     ]_vars

----
(***************************************************************************)
(* Properties of calculateScaleDownNodeCount.                               *)
(***************************************************************************)
\* C19: the target of a scale-down decision is the node count less the
\* smaller of the under-utilized count and the ceiling of 20% of the node
\* count, and not less than MinNodes.
C19_ScaleDownTarget ==
  downCalc.called
    => LET cap == CeilDiv(downCalc.len * 2, 10)
           wanted == downCalc.len - Min(downCalc.underutilized, cap)
       IN  downCalc.targetNodes = IF wanted < MinNodes THEN MinNodes ELSE wanted

----
(***************************************************************************)
(* Properties of the pending GPU pods.                                      *)
(***************************************************************************)
\* C22: the pending GPU pods are the pending pods that request the
\* whole-GPU resource or a resource named nvidia.com/mig-<profile>.
C22_PartitionKeyIsGPU ==
  (call.fn = "getPendingGPUPods" /\ call.called /\ ~call.err)
    => call.pendingPods =
         SelectSeq(call.podList,
                   LAMBDA pod :
                     /\ pod.Phase = "Pending"
                     /\ \/ ResourceGPU \in pod.Requests
                        \/ \E name \in pod.Requests :
                             /\ Len(name) > Len(PrefixMIG)
                             /\ Slice(name, Len(PrefixMIG)) = PrefixMIG)

----
(***************************************************************************)
(* Properties of analyzeClusterState.                                       *)
(***************************************************************************)
\* C23: when the average utilization cannot be read and 0 is used in its
\* place, while the utilization of the nodes is not below the scale-down
\* threshold on average, the decision is not a scale-down.
C23_NoScaleDownOnSubstitute ==
  ( /\ call.fn = "analyzeClusterState" /\ call.called /\ ~call.err
    /\ call.m.err
    /\ ~AvgBelow([sum |-> SumSeq(call.m.util), cnt |-> call.n], ScaleDownThreshold) )
    => call.decision.Action # ScaleDown

\* C32: every node a scale-down selects for drain and removal was counted
\* as under-utilized in that tick: its utilization was read and is below the
\* scale-down threshold.
C32_VictimsAreUnderutilized ==
  ( /\ call.fn = "analyzeClusterState" /\ call.called /\ ~call.err
    /\ call.decision.Action = ScaleDown )
    => \A k \in DOMAIN call.victims :
         /\ call.victims[k] \notin call.m.nodeErr
         /\ call.m.util[call.victims[k]] < ScaleDownThreshold

----
(***************************************************************************)
(* Properties of the classification.                                        *)
(***************************************************************************)
\* C25: a GPU pod is classified by the first rule that matches: opt-out
\* (optimize=false or sharing=disabled) admits it unchanged, then the explicit
\* sharing mode, training, a small single-GPU request with MIG enabled,
\* inference or serving with MPS enabled, development or batch with
\* time-slicing enabled, the sharing opt-in, and exclusive.
C25_FirstMatchingRule ==
  (call.fn = "Handle" /\ call.called)
    => LET pod == call.pod
           cfg == call.cfg
       IN  IF pod.optimize = "false" \/ pod.sharing = "disabled"
           THEN call.response.kind = "allowed" /\ call.response.pod = pod
           ELSE call.strategy =
                  IF pod.sharingMode # "" THEN pod.sharingMode
                  ELSE IF pod.workloadType = "training" THEN "exclusive"
                  ELSE IF pod.gpuReq = 1 /\ pod.memory < 20 * 1024 /\ cfg.enableMIG
                  THEN "mig"
                  ELSE IF pod.workloadType \in {"inference", "serving"} /\ cfg.enableMPS
                  THEN "mps"
                  ELSE IF pod.workloadType \in {"development", "batch"} /\ cfg.enableTS
                  THEN "timeslicing"
                  ELSE IF pod.sharing = "enabled" /\ cfg.enableMPS THEN "mps"
                  ELSE IF pod.sharing = "enabled" /\ cfg.enableTS THEN "timeslicing"
                  ELSE "exclusive"

----
(***************************************************************************)
(* Properties of GetMIGProfile.                                             *)
(***************************************************************************)
\* C26: the profile selected fits the request and no profile that fits is
\* smaller (no more compute units and no more memory, and less of one); when
\* no profile fits, none is selected.
C26_SmallestFittingProfile ==
  (call.fn = "GetMIGProfile" /\ call.called)
    => LET fits == { i \in DOMAIN MIGProfiles :
                       /\ MIGProfiles[i].Compute >= call.gpuRequest
                       /\ MIGProfiles[i].Memory * KiBPerMiB >= call.memoryRequest }
           smaller(j, i) ==
             /\ MIGProfiles[j].Compute <= MIGProfiles[i].Compute
             /\ MIGProfiles[j].Memory <= MIGProfiles[i].Memory
             /\ \/ MIGProfiles[j].Compute < MIGProfiles[i].Compute
                \/ MIGProfiles[j].Memory < MIGProfiles[i].Memory
       IN  IF fits = {} THEN call.profile = 0
           ELSE /\ call.profile \in fits
                /\ \A j \in fits : ~smaller(j, call.profile)

----
(***************************************************************************)
(* Properties of the GPU pods of the cost tracker.                          *)
(***************************************************************************)
\* C28: the cost tracker accrues cost for a running pod that requests the
\* whole-GPU key, the key of any MIG profile or the shared-GPU key, and its
\* GPU count is the sum of those requests.
C28_EveryPartitionKeyBilled ==
  (call.fn = "isGPUPod" /\ call.called)
    => LET gpuKeys ==
             {"nvidia.com/gpu", "nvidia.com/gpu-shared"}
               \cup { GetMIGDeviceResourceName(MIGProfiles[i]) : i \in DOMAIN MIGProfiles }
           requested == { i \in DOMAIN call.pod : call.pod[i].key \in gpuKeys }
       IN  /\ call.tracked <=> requested # {}
           /\ call.gpuCount =
                SumSeq([i \in DOMAIN call.pod |->
                          IF i \in requested THEN call.pod[i].qty ELSE 0])

----
(***************************************************************************)
(* Properties of the cost_data table.                                      *)
(***************************************************************************)
\* C29: an insertion leaves at most one row per workload and namespace in
\* each minute bucket, and changes nothing of the rows it finds but their
\* cumulative cost and hourly rate.
C29_OneRowPerMinuteBucket ==
  [][ costData' # costData
        => LET bucket(r) == r.time \div 60
               key(r) == << bucket(r), r.pod_name, r.namespace >>
           IN  /\ \A r, s \in costData' : key(r) = key(s) => r = s
               /\ \A r \in costData :
                    \E s \in costData' : key(s) = key(r) /\ s.team = r.team ]_vars

----
----
----
(***************************************************************************)
(* Properties of the PodCost cache under a concurrent reader.              *)
(***************************************************************************)
\* C38: the accrual writes only to a struct of its own, one that the cache
\* does not point to and that no reader has been handed, and the two fields
\* a reader has read from the struct it was handed are the fields of one
\* struct as it was stored.
C38_ReaderSeesStoredStruct ==
  sharedMem.fn = "podCostCache"
    => /\ sharedMem.w.pc \in {"copied", "timed", "added"}
            => /\ sharedMem.w.new # sharedMem.cached
               /\ sharedMem.r.pc # "idle" => sharedMem.w.new # sharedMem.r.ptr
       /\ sharedMem.r.pc = "read"
            => [TotalCost |-> sharedMem.r.TotalCost, LastUpdated |-> sharedMem.r.LastUpdated]
                 \in sharedMem.published

\* A reader has read one field, the accrual has then stored a struct with
\* other fields, and the reader has read the second field after that.
C38_Witness ==
  /\ sharedMem.fn = "podCostCache"
  /\ sharedMem.r.pc = "read"
  /\ sharedMem.r.newer > 0
  /\ sharedMem.cached # sharedMem.r.ptr
  /\ Fields(sharedMem.heap[sharedMem.cached]) # Fields(sharedMem.heap[sharedMem.r.ptr])

----
(***************************************************************************)
(* Properties of the pricing cache under concurrent lookups.               *)
(***************************************************************************)
\* C39: the pricing cache is emptied by deleting its entries in place: the
\* map as a whole is not assigned to while a lookup is running, and no lookup
\* operates on a map that is being written as a whole.
C39_ClearedInPlace ==
  sharedMem.fn = "priceCache"
    => /\ ~(Writing /\ sharedMem.lookup.pc # "idle")
       /\ ~sharedMem.raced

----
(***************************************************************************)
(* Properties of terminationWarnings under the loop and the drains.        *)
(***************************************************************************)
\* C40: the polling loop is never at a read or a write of terminationWarnings
\* while a drain goroutine is at its delete from it, and no access of the map
\* has met another one under way.
C40_NoConcurrentMapAccess ==
  sharedMem.fn = "terminationWarnings"
    => /\ ~(PollAtMap /\ DrainAtDelete)
       /\ ~sharedMem.fatal

====
